---- MODULE Spec2Model ----
(***************************************************************************)
(* A model of the ISLa constraint solver (src/isla/solver.py): the         *)
(* best-first search of ISLaSolver.solve over (constraint, tree) states,   *)
(* with the rules it applies to a popped state and the path every          *)
(* successor takes into the queue.                                         *)
(*                                                                         *)
(* Paths are sequences of child indices; they start at 1 here (0 in the    *)
(* source).  A string is the sequence of its symbols.                      *)
(***************************************************************************)
EXTENDS Integers, Sequences, FiniteSets, TLC

\* ------------------------------------------------------------------ bounds
\* Trees with more nodes than this are not represented; a successor that
\* would need one sets `truncated` and is left out.
MaxTreeSize == 5
\* Longest word the SMT backend and the fuzzer produce.
MaxWordLen == 2
\* Largest elapsed time (in seconds) the clock counts to.
MaxTime == 1

\* ----------------------------------------------------------------- grammar
\* The grammar the solver is constructed with: its nonterminals in order and
\* its rules, nonterminal -> alternatives -> symbols.
VARIABLES
    grammar,                         \* self.grammar
    symbol_cost_result               \* self.symbol_costs, what compute_symbol_costs returned

\* A cut-down assignment language: a recursive list of one-letter variables.
ListRules ==
    ("<start>" :> << <<"<list>">> >>) @@
    ("<list>"  :> << <<"<var>">>, <<"<var>", "<list>">> >>) @@
    ("<var>"   :> << <<"a">>, <<"b">> >>)

\* self.canonical_grammar = canonical(grammar).
canonical_grammar == grammar.rules

is_nonterminal(s) == s \in DOMAIN canonical_grammar

SeqRange(s) == {s[i] : i \in 1..Len(s)}

\* Nonterminals occurring in some alternative of n.
GraphChildren(n) ==
    {s \in DOMAIN canonical_grammar :
        \E i \in 1..Len(canonical_grammar[n]) : s \in SeqRange(canonical_grammar[n][i])}

RECURSIVE ReachSet(_, _)
ReachSet(frontier, seen) ==
    LET new == (UNION {GraphChildren(n) : n \in frontier}) \ seen
    IN  IF new = {} THEN seen ELSE ReachSet(new, seen \cup new)

\* reachable(a, b): b is reached from a by at least one grammar edge.
reachable(a, b) == b \in ReachSet({a}, {})

RECURSIVE Flatten(_)
Flatten(ss) == IF ss = <<>> THEN <<>> ELSE Head(ss) \o Flatten(Tail(ss))

\* ------------------------------------------------------- derivation trees
\* DerivationTree(value, children, id): `open` stands for children = None.
Node(v, i, ch) == [value |-> v, id |-> i, open |-> FALSE, children |-> ch]
OpenNode(v, i) == [value |-> v, id |-> i, open |-> TRUE, children |-> <<>>]

RECURSIVE paths(_)
paths(t) ==
    {<<>>} \cup UNION {{<<i>> \o p : p \in paths(t.children[i])} : i \in 1..Len(t.children)}

RECURSIVE get_subtree(_, _)
get_subtree(t, p) ==
    IF p = <<>> THEN t ELSE get_subtree(t.children[Head(p)], Tail(p))

is_valid_path(t, p) == p \in paths(t)

RECURSIVE replace_path(_, _, _)
replace_path(t, p, new) ==
    IF p = <<>> THEN new
    ELSE [t EXCEPT !.children[Head(p)] = replace_path(@, Tail(p), new)]

\* paths(): the paths in the order of the traversal (a node before its
\* children, children left to right).
RECURSIVE paths_list(_)
paths_list(t) ==
    <<(<<>>)>> \o Flatten([i \in 1..Len(t.children) |->
                    LET sub == paths_list(t.children[i])
                    IN  [j \in 1..Len(sub) |-> <<i>> \o sub[j]]])

Subtrees(t) == {get_subtree(t, p) : p \in paths(t)}
NodeIds(t) == {s.id : s \in Subtrees(t)}
TreeSize(t) == Cardinality(paths(t))

\* find_node(tree, node): the node is found by its id.
HasNode(t, i) == i \in NodeIds(t)
find_node(t, i) == CHOOSE p \in paths(t) : get_subtree(t, p).id = i

open_leaves(t) == {p \in paths(t) : get_subtree(t, p).open}
is_open(t) == open_leaves(t) # {}
is_complete(t) == open_leaves(t) = {}

\* structural_hash: shape and symbols only, no identities.  The hash is
\* modelled as collision-free: the tree with its ids erased.
RECURSIVE structural_hash(_)
structural_hash(t) ==
    [value |-> t.value, open |-> t.open,
     children |-> [i \in 1..Len(t.children) |-> structural_hash(t.children[i])]]

structurally_equal(t1, t2) == structural_hash(t1) = structural_hash(t2)

\* str(tree): the leaves in order; an open leaf prints as its nonterminal.
RECURSIVE TreeStr(_)
TreeStr(t) ==
    IF t.open \/ t.children = <<>> THEN <<t.value>>
    ELSE Flatten([i \in 1..Len(t.children) |-> TreeStr(t.children[i])])

\* substitute(subst_map): identity-based; a node whose id is a key is
\* replaced by the mapped tree, outermost first.  A map is a function from
\* ids to trees.
RECURSIVE substitute(_, _)
substitute(t, m) ==
    IF t.id \in DOMAIN m THEN m[t.id]
    ELSE [t EXCEPT !.children = [i \in 1..Len(t.children) |-> substitute(t.children[i], m)]]

\* Fresh identities base, base+1, ... in pre-order for an id-less tree.
RECURSIVE StructSize(_)
RECURSIVE SumSizes(_, _)
SumSizes(chs, n) == IF n = 0 THEN 0 ELSE SumSizes(chs, n - 1) + StructSize(chs[n])
StructSize(s) == 1 + SumSizes(s.children, Len(s.children))

RECURSIVE WithIds(_, _)
WithIds(s, base) ==
    [value |-> s.value, id |-> base, open |-> s.open,
     children |-> [i \in 1..Len(s.children) |->
                      WithIds(s.children[i], base + 1 + SumSizes(s.children, i - 1))]]


\* ---------------------------------------------------------------- formulas
\* sc.true(), sc.false(): SMTFormula(z3.BoolVal(...)).
TrueF == [kind |-> "true"]
FalseF == [kind |-> "false"]

\* Arguments of atoms: a variable, a derivation tree or a string literal.
VarArg(v) == [var |-> v]
TreeArg(t) == [tree |-> t]
StrArg(w) == [str |-> w]
IsVar(a) == "var" \in DOMAIN a
IsTree(a) == "tree" \in DOMAIN a
IsStr(a) == "str" \in DOMAIN a

\* SMTFormula: body compares two arguments (op "eq" or "ne"); free are the
\* free variables; subst are the substitutions, instantiated variable ->
\* tree (the instantiated variables are DOMAIN subst).
SMT(op, l, r, free, subst) ==
    [kind |-> "smt", op |-> op, l |-> l, r |-> r, free |-> free, subst |-> subst]

\* ForallFormula / ExistsFormula: bound variable bv of type ntype, quantified
\* in `in` (a variable or a tree), already_matched a set of node ids.
Forall(bv, ntype, in, body, matched) ==
    [kind |-> "forall", bv |-> bv, ntype |-> ntype, in |-> in, body |-> body,
     already_matched |-> matched]
Exists(bv, ntype, in, body) ==
    [kind |-> "exists", bv |-> bv, ntype |-> ntype, in |-> in, body |-> body]

\* StructuralPredicateFormula before(a1, a2).
Pred(name, args) == [kind |-> "pred", name |-> name, args |-> args]

\* SemanticPredicateFormula name(args).  A number argument stands for the
\* tree DerivationTree(str(n), None).
SemPred(name, args) == [kind |-> "sempred", name |-> name, args |-> args]
NumArg(n) == [num |-> n]
IsNum(a) == "num" \in DOMAIN a

\* IntroduceNumericConstantFormula: num bv: body.
Intro(bv, body) == [kind |-> "intro", bv |-> bv, body |-> body]

\* f & g and f | g, with the simplifications of Formula.__and__ / __or__.
And(f, g) ==
    IF f = g THEN f
    ELSE IF f = FalseF \/ g = FalseF THEN FalseF
    ELSE IF f = TrueF THEN g
    ELSE IF g = TrueF THEN f
    ELSE [kind |-> "and", l |-> f, r |-> g]

Or(f, g) ==
    IF f = g THEN f
    ELSE IF f = TrueF \/ g = TrueF THEN TrueF
    ELSE IF f = FalseF THEN g
    ELSE IF g = FalseF THEN f
    ELSE [kind |-> "or", l |-> f, r |-> g]

RECURSIVE AndAll(_)
AndAll(fs) == IF fs = <<>> THEN TrueF ELSE And(Head(fs), AndAll(Tail(fs)))
RECURSIVE OrAll(_)
OrAll(fs) == IF fs = <<>> THEN FalseF ELSE Or(Head(fs), OrAll(Tail(fs)))

RECURSIVE split_conjunction(_)
split_conjunction(f) ==
    IF f.kind = "and" THEN split_conjunction(f.l) \o split_conjunction(f.r) ELSE <<f>>

RECURSIVE split_disjunction(_)
split_disjunction(f) ==
    IF f.kind = "or" THEN split_disjunction(f.l) \o split_disjunction(f.r) ELSE <<f>>

\* get_conjuncts: the conjuncts of all disjuncts.
get_conjuncts(f) ==
    LET ds == split_disjunction(f)
    IN  Flatten([i \in 1..Len(ds) |-> split_conjunction(ds[i])])

SelectKind(fs, k) == SelectSeq(fs, LAMBDA f : f.kind = k)

\* replace_formula(in_formula, to_replace, replacement).
RECURSIVE replace_formula(_, _, _)
replace_formula(f, old, new) ==
    IF f = old THEN new
    ELSE CASE f.kind = "and" -> And(replace_formula(f.l, old, new), replace_formula(f.r, old, new))
           [] f.kind = "or" -> Or(replace_formula(f.l, old, new), replace_formula(f.r, old, new))
           [] f.kind \in {"forall", "exists", "intro"} ->
                [f EXCEPT !.body = replace_formula(@, old, new)]
           [] OTHER -> f

\* All sub-formulas of a kind (FilterVisitor(...).collect).
RECURSIVE Collect(_, _)
Collect(f, k) ==
    (IF f.kind = k THEN <<f>> ELSE <<>>) \o
    (CASE f.kind \in {"and", "or"} -> Collect(f.l, k) \o Collect(f.r, k)
       [] f.kind \in {"forall", "exists", "intro"} -> Collect(f.body, k)
       [] OTHER -> <<>>)

\* The value of a closed comparison.
EvalCmp(op, l, r) == IF op = "eq" THEN l = r ELSE l # r

Restrict(f, S) == [k \in S |-> f[k]]
Merge(f, g) == [k \in DOMAIN f \cup DOMAIN g |-> IF k \in DOMAIN g THEN g[k] ELSE f[k]]
EmptyMap == <<>>

\* SMTFormula.substitute_expressions: the trees of the substitutions are
\* updated, substituted free variables become instantiated variables, a
\* variable standing for a complete tree is replaced by the tree's string,
\* and a formula left without variables is evaluated.
SmtSubstitute(f, vm, tm) ==
    LET updated == [v \in DOMAIN f.subst |-> substitute(f.subst[v], tm)]
        newvars == DOMAIN vm \cap f.free
        all == Merge(updated, Restrict(vm, newvars))
        done == {v \in DOMAIN all : is_complete(all[v])}
        arg(a) == IF IsVar(a) /\ a.var \in done THEN StrArg(TreeStr(all[a.var])) ELSE a
        free2 == f.free \ newvars
        subst2 == Restrict(all, DOMAIN all \ done)
        l2 == arg(f.l)
        r2 == arg(f.r)
    IN  IF free2 = {} /\ DOMAIN subst2 = {} /\ IsStr(l2) /\ IsStr(r2)
        THEN IF EvalCmp(f.op, l2.str, r2.str) THEN TrueF ELSE FalseF
        ELSE SMT(f.op, l2, r2, free2, subst2)

SubstArg(a, vm, tm) ==
    IF IsVar(a) THEN (IF a.var \in DOMAIN vm THEN TreeArg(vm[a.var]) ELSE a)
    ELSE IF IsTree(a) THEN TreeArg(substitute(a.tree, tm))
    ELSE a

\* Formula.substitute_expressions(subst_map): vm the part of the map keyed
\* by variables, tm the part keyed by trees (by their ids).
RECURSIVE substitute_expressions(_, _, _)
substitute_expressions(f, vm, tm) ==
    CASE f.kind = "smt" -> SmtSubstitute(f, vm, tm)
      [] f.kind \in {"pred", "sempred"} ->
            [f EXCEPT !.args = [i \in 1..Len(f.args) |-> SubstArg(f.args[i], vm, tm)]]
      [] f.kind \in {"forall", "exists"} ->
            [f EXCEPT !.in = SubstArg(@, vm, tm),
                      !.body = substitute_expressions(@, vm, tm)]
      [] f.kind = "intro" -> [f EXCEPT !.body = substitute_expressions(@, vm, tm)]
      [] f.kind = "and" ->
            And(substitute_expressions(f.l, vm, tm), substitute_expressions(f.r, vm, tm))
      [] f.kind = "or" ->
            Or(substitute_expressions(f.l, vm, tm), substitute_expressions(f.r, vm, tm))
      [] OTHER -> f

\* convert_to_dnf (the formulas of the model have no negation, so they are
\* in negation normal form): conjunction distributes over disjunction, the
\* body of a quantifier is converted in place.
RECURSIVE convert_to_dnf(_)
convert_to_dnf(f) ==
    CASE f.kind = "and" ->
            LET ls == split_disjunction(convert_to_dnf(f.l))
                rs == split_disjunction(convert_to_dnf(f.r))
            IN  OrAll(Flatten([i \in 1..Len(ls) |-> [j \in 1..Len(rs) |-> And(ls[i], rs[j])]]))
      [] f.kind = "or" -> Or(convert_to_dnf(f.l), convert_to_dnf(f.r))
      [] f.kind \in {"forall", "exists", "intro"} -> [f EXCEPT !.body = convert_to_dnf(@)]
      [] OTHER -> f

\* ------------------------------------------------------- grammar services
Leaf(v) == [value |-> v, open |-> FALSE, children |-> <<>>]

RECURSIVE StructStr(_)
StructStr(d) ==
    IF d.open \/ d.children = <<>> THEN <<d.value>>
    ELSE Flatten([i \in 1..Len(d.children) |-> StructStr(d.children[i])])

\* The complete derivations (without ids) of a symbol that yield at most n
\* symbols.  No alternative of the grammar is empty.
RECURSIVE Derivs(_, _)
RECURSIVE SeqDerivs(_, _)
Derivs(sym, n) ==
    IF n < 1 THEN {}
    ELSE IF ~is_nonterminal(sym) THEN {Leaf(sym)}
    ELSE UNION {{[value |-> sym, open |-> FALSE, children |-> chs] :
                    chs \in SeqDerivs(canonical_grammar[sym][a], n)} :
                a \in 1..Len(canonical_grammar[sym])}
SeqDerivs(syms, n) ==
    IF syms = <<>> THEN {<<>>}
    ELSE UNION {{<<d>> \o rest : rest \in SeqDerivs(Tail(syms), n - Len(StructStr(d)))} :
                d \in Derivs(Head(syms), n - (Len(syms) - 1))}

\* extract_regular_expression(nonterminal): the words of the nonterminal,
\* up to the length bound.
extract_regular_expression(nt) == {StructStr(d) : d \in Derivs(nt, MaxWordLen)}

\* ISLaSolver.parse(nonterminal, input): the first derivation of the word
\* from the nonterminal (the grammar is unambiguous), without ids.
parse(nt, word) == CHOOSE d \in Derivs(nt, Len(word)) : StructStr(d) = word

\* ------------------------------------------------------ quantifier matcher
\* matches_for_quantified_formula without a match expression: the paths, in
\* traversal order, of the sub-trees of in_variable whose value is the type
\* of the bound variable.
matches_for_quantified_formula(f) ==
    IF ~IsTree(f.in) THEN <<>>
    ELSE SelectSeq(paths_list(f.in.tree),
                   LAMBDA p : get_subtree(f.in.tree, p).value = f.ntype)

is_already_matched(f, t) == t.id \in f.already_matched

UnmatchedMatches(f) ==
    SelectSeq(matches_for_quantified_formula(f),
              LAMBDA p : ~is_already_matched(f, get_subtree(f.in.tree, p)))

\* quantified_formula_might_match(formula, path, tree): the node at the path
\* lies in the formula's in_variable and its symbol reaches the type of the
\* bound variable.
quantified_formula_might_match(f, p, t) ==
    /\ IsTree(f.in)
    /\ HasNode(f.in.tree, get_subtree(t, p).id)
    /\ reachable(get_subtree(t, p).value, f.ntype)

\* ------------------------------------------------- structural predicates
\* A variant of is_before that takes a path to be before its extensions.
RECURSIVE is_before_or_above(_, _)
is_before_or_above(p1, p2) ==
    IF p2 = <<>> THEN FALSE
    ELSE IF p1 = <<>> THEN TRUE
    ELSE IF Head(p1) < Head(p2) THEN TRUE
    ELSE IF Head(p2) < Head(p1) THEN FALSE
    ELSE is_before_or_above(Tail(p1), Tail(p2))

\* is_before (isla_predicates.py), on 1-based paths.
RECURSIVE is_before(_, _)
is_before(p1, p2) ==
    IF p1 = <<>> \/ p2 = <<>> THEN FALSE
    ELSE IF Head(p1) < Head(p2) THEN TRUE
    ELSE IF Head(p2) < Head(p1) THEN FALSE
    ELSE is_before(Tail(p1), Tail(p2))

\* path_2[:len(path_1)]: the slice is all of path_2 when it is the shorter.
Slice(p, n) == SubSeq(p, 1, IF n < Len(p) THEN n ELSE Len(p))

\* AFTER_PREDICATE (isla_predicates.py 34-40).
after(p1, p2) == ~is_before(p1, p2) /\ p1 # Slice(p2, Len(p1))

\* StructuralPredicateFormula.evaluate(context_tree): the arguments are
\* looked up in the tree by id.  An argument that is not in the tree makes
\* the lookup fail; the model then takes the predicate to be false.
PredEvaluate(f, t) ==
    /\ \A i \in 1..Len(f.args) : HasNode(t, f.args[i].tree.id)
    /\ is_before(find_node(t, f.args[1].tree.id), find_node(t, f.args[2].tree.id))

\* -------------------------------------------------------------- evaluation
\* isla.evaluate(formula, tree): env maps a variable to the path of the
\* sub-tree of `tree` it stands for.
ArgPath(a, env, t) == IF IsVar(a) THEN env[a.var] ELSE find_node(t, a.tree.id)
ArgStr(a, env, t) == IF IsStr(a) THEN a.str ELSE TreeStr(get_subtree(t, ArgPath(a, env, t)))

RECURSIVE Evaluate(_, _, _)
Evaluate(f, env, t) ==
    CASE f.kind = "true" -> TRUE
      [] f.kind = "false" -> FALSE
      [] f.kind = "smt" -> EvalCmp(f.op, ArgStr(f.l, env, t), ArgStr(f.r, env, t))
      [] f.kind = "pred" -> is_before(ArgPath(f.args[1], env, t), ArgPath(f.args[2], env, t))
      [] f.kind = "and" -> Evaluate(f.l, env, t) /\ Evaluate(f.r, env, t)
      [] f.kind = "or" -> Evaluate(f.l, env, t) \/ Evaluate(f.r, env, t)
      [] f.kind \in {"forall", "exists"} ->
            LET root == ArgPath(f.in, env, t)
                cands == {root \o p : p \in {q \in paths(get_subtree(t, root)) :
                                get_subtree(get_subtree(t, root), q).value = f.ntype}}
                holds(p) == Evaluate(f.body, Merge(env, [v \in {f.bv} |-> p]), t)
            IN  IF f.kind = "forall" THEN \A p \in cands : holds(p)
                ELSE \E p \in cands : holds(p)

\* ------------------------------------------------------------ solver state
\* SolutionState(constraint, tree, level = 0).
SolutionState(c, t, lvl) == [constraint |-> c, tree |-> t, level |-> lvl]

\* A variant that does not look at the constraint.
TreeComplete(state) == is_complete(state.tree)

\* SolutionState.complete().
complete(state) == is_complete(state.tree) /\ state.constraint = TrueF

IsDisjunctive(f) == f.kind = "or"

\* instantiate_structural_predicates: every structural predicate formula
\* without variable arguments is replaced by its value in the state's tree.
RECURSIVE ReplacePreds(_, _, _)
ReplacePreds(f, preds, t) ==
    IF preds = <<>> THEN f
    ELSE ReplacePreds(
            replace_formula(f, Head(preds),
                            IF PredEvaluate(Head(preds), t) THEN TrueF ELSE FalseF),
            Tail(preds), t)

instantiate_structural_predicates(state) ==
    LET preds == SelectSeq(Collect(state.constraint, "pred"),
                           LAMBDA f : \A i \in 1..Len(f.args) : ~IsVar(f.args[i]))
    IN  SolutionState(ReplacePreds(state.constraint, preds, state.tree), state.tree, 0)

\* match_universal_formulas: for each universal formula, the matches that are
\* not already matched are recorded in already_matched and the body is
\* instantiated for each of them.  Returns the new constraint and the number
\* of matches.
RECURSIVE AddMatches(_, _, _, _)
AddMatches(ctx, uf, uf2, ms) ==
    IF ms = <<>> THEN ctx
    ELSE LET vm == [v \in {uf.bv} |-> get_subtree(uf.in.tree, Head(ms))]
             inst == substitute_expressions(uf2.body, vm, EmptyMap)
         IN  AddMatches(And(inst, replace_formula(ctx, uf, uf2)), uf, uf2, Tail(ms))

\* A variant that instantiates the bodies without recording the matches.
RECURSIVE MatchLoopUnrecorded(_, _, _)
MatchLoopUnrecorded(ufs, ctx, n) ==
    IF ufs = <<>> THEN [constraint |-> ctx, number_matches |-> n]
    ELSE LET uf == Head(ufs)
             ms == UnmatchedMatches(uf)
         IN  MatchLoopUnrecorded(Tail(ufs), AddMatches(ctx, uf, uf, ms), n + Len(ms))

RECURSIVE MatchLoop(_, _, _)
MatchLoop(ufs, ctx, n) ==
    IF ufs = <<>> THEN [constraint |-> ctx, number_matches |-> n]
    ELSE LET uf == Head(ufs)
             ms == UnmatchedMatches(uf)
             uf2 == [uf EXCEPT !.already_matched =
                        @ \cup {get_subtree(uf.in.tree, ms[i]).id : i \in 1..Len(ms)}]
         IN  MatchLoop(Tail(ufs), AddMatches(ctx, uf, uf2, ms), n + Len(ms))

match_universal_formulas(universal_formulas, state) ==
    LET r == MatchLoop(universal_formulas, state.constraint, 0)
    IN  IF r.number_matches > 0
        THEN <<SolutionState(r.constraint, state.tree, 0)>>
        ELSE <<>>

\* match_all_universal_formulas: None (here <<>>, with applies = FALSE) when
\* there is no universal conjunct or nothing new matches.
match_all_universal_formulas(state) ==
    match_universal_formulas(SelectKind(split_conjunction(state.constraint), "forall"), state)

\* expand_tree: the open leaves some universal conjunct might match, each
\* with all its grammar alternatives; one successor per element of the
\* product.  The children of an expansion get fresh ids, the expanded leaf
\* keeps its id.
\* A variant that takes every open leaf.
AllOpenLeaves(state) ==
    SelectSeq(paths_list(state.tree), LAMBDA p : get_subtree(state.tree, p).open)

ExpandableLeaves(state) ==
    SelectSeq(paths_list(state.tree),
              LAMBDA p : /\ get_subtree(state.tree, p).open
                         /\ \E i \in 1..Len(get_conjuncts(state.constraint)) :
                               /\ get_conjuncts(state.constraint)[i].kind = "forall"
                               /\ quantified_formula_might_match(
                                     get_conjuncts(state.constraint)[i], p, state.tree))

RECURSIVE SumLens(_, _)
SumLens(alts, n) == IF n = 0 THEN 0 ELSE SumLens(alts, n - 1) + Len(alts[n])

NumChildNodes(sym) == SumLens(canonical_grammar[sym], Len(canonical_grammar[sym]))

RECURSIVE LeafBase(_, _, _)
LeafBase(t, leaves, k) ==
    IF k = 1 THEN 0
    ELSE LeafBase(t, leaves, k - 1) + NumChildNodes(get_subtree(t, leaves[k - 1]).value)

\* The children DerivationTree(child, None if is_nonterminal(child) else [])
\* of alternative a of a leaf, with ids from base on.
NewChildren(sym, a, base) ==
    LET alt == canonical_grammar[sym][a]
        first == base + SumLens(canonical_grammar[sym], a - 1)
    IN  [i \in 1..Len(alt) |->
            IF is_nonterminal(alt[i]) THEN OpenNode(alt[i], first + i - 1)
            ELSE Node(alt[i], first + i - 1, <<>>)]

\* All choices of one alternative per leaf, in lexicographic order.
RECURSIVE Choices(_, _)
Choices(t, leaves) ==
    IF leaves = <<>> THEN <<(<<>>)>>
    ELSE LET rest == Choices(t, Tail(leaves))
             n == Len(canonical_grammar[get_subtree(t, Head(leaves)).value])
         IN  Flatten([a \in 1..n |-> [j \in 1..Len(rest) |-> <<a>> \o rest[j]]])

RECURSIVE ApplyExpansion(_, _, _, _, _, _)
ApplyExpansion(orig, t, leaves, choice, k, base) ==
    IF k > Len(leaves) THEN t
    ELSE LET leaf == get_subtree(t, leaves[k])
             new == Node(leaf.value, leaf.id,
                         NewChildren(leaf.value, choice[k], base + LeafBase(orig, leaves, k)))
         IN  ApplyExpansion(orig, replace_path(t, leaves[k], new), leaves, choice, k + 1, base)

Prefixes(p) == {SubSeq(p, 1, n) : n \in 0..Len(p)}

expand_tree(state, base) ==
    LET leaves == ExpandableLeaves(state)
        choices == Choices(state.tree, leaves)
        expanded(c) == ApplyExpansion(state.tree, state.tree, leaves, c, 1, base)
        \* {state.tree.get_subtree(path[:idx]): expanded_tree.get_subtree(path[:idx])}
        tm(c) == LET pre == UNION {Prefixes(leaves[k]) : k \in 1..Len(leaves)}
                     ids == {get_subtree(state.tree, q).id : q \in pre}
                 IN  [i \in ids |-> get_subtree(expanded(c), find_node(state.tree, i))]
    IN  IF leaves = <<>> THEN <<>>
        ELSE [j \in 1..Len(choices) |->
                SolutionState(
                    substitute_expressions(state.constraint, EmptyMap, tm(choices[j])),
                    expanded(choices[j]), 0)]

\* Fresh ids expand_tree takes.
ExpandIds(state) ==
    LET leaves == ExpandableLeaves(state)
    IN  IF leaves = <<>> THEN 0
        ELSE LeafBase(state.tree, leaves, Len(leaves))
             + NumChildNodes(get_subtree(state.tree, leaves[Len(leaves)]).value)

\* ------------------------------------------------------------- SMT bridge
RECURSIVE SetToSeq(_)
SetToSeq(S) ==
    IF S = {} THEN <<>>
    ELSE LET e == CHOOSE e \in S : TRUE IN <<e>> \o SetToSeq(S \ {e})

Range(f) == {f[k] : k \in DOMAIN f}

\* The type of a variable that stands for no tree.
VarType(v) == IF v = "start" THEN "<start>" ELSE "<var>"

\* rename_instantiated_variables_in_smt_formulas: an instantiated variable is
\* named after the value and the id of its tree, so that two formulas about
\* the same tree share the variable.
NewName(t) == t.value \o "_" \o ToString(t.id)

RenameAtom(f) ==
    LET ren == [v \in DOMAIN f.subst |-> NewName(f.subst[v])]
        arg(a) == IF IsVar(a) /\ a.var \in DOMAIN f.subst THEN VarArg(ren[a.var]) ELSE a
    IN  SMT(f.op, arg(f.l), arg(f.r), f.free,
            [n \in Range(ren) |-> f.subst[CHOOSE v \in DOMAIN f.subst : ren[v] = n]])

rename_instantiated_variables_in_smt_formulas(fs) ==
    [i \in 1..Len(fs) |-> RenameAtom(fs[i])]

AtomVars(f) == f.free \cup DOMAIN f.subst

\* A variant without the sub-trees of the substituted trees.
RootElements(f) ==
    {[v |-> n] : n \in AtomVars(f)} \cup {[n |-> f.subst[v].id] : v \in DOMAIN f.subst}

\* The elements an SMT formula is clustered by (solver.py 824-828): its
\* variables and all sub-trees of its substitutions.
ClusterElements(f) ==
    {[v |-> n] : n \in AtomVars(f)} \cup
    {[n |-> i] : i \in UNION {NodeIds(f.subst[v]) : v \in DOMAIN f.subst}}

\* cluster_by_common_elements: the classes of the formulas under "share an
\* element", closed transitively; a class is a set of indices into fs.
RECURSIVE GrowCluster(_, _)
GrowCluster(fs, c) ==
    LET more == {j \in 1..Len(fs) :
                    \E i \in c : ClusterElements(fs[i]) \cap ClusterElements(fs[j]) # {}}
    IN  IF more \subseteq c THEN c ELSE GrowCluster(fs, c \cup more)

RECURSIVE ClustersFrom(_, _)
ClustersFrom(fs, left) ==
    IF left = {} THEN <<>>
    ELSE LET first == CHOOSE i \in left : \A j \in left : i <= j
             c == GrowCluster(fs, {first})
         IN  <<c>> \o ClustersFrom(fs, left \ c)

cluster_by_common_elements(fs) ==
    LET cs == ClustersFrom(fs, 1..Len(fs))
    IN  [k \in 1..Len(cs) |-> SelectSeq(fs, LAMBDA f : \E i \in cs[k] : fs[i] = f)]

\* get_conflicts (solver.py 888-896): the formulas with a substituted tree
\* that lies strictly inside a substituted tree of another formula.
get_conflicts(fs) ==
    SelectSeq(fs, LAMBDA f :
        \E i \in 1..Len(fs), j \in 1..Len(fs) :
            /\ fs[i] = f /\ i # j
            /\ \E t \in Range(f.subst), ot \in Range(fs[j].subst) :
                    ot # t /\ HasNode(ot, t.id))

\* The formulas solve_quantifier_free_formula solves in this round.
SolvedFormulas(fs) == IF get_conflicts(fs) # <<>> THEN get_conflicts(fs) ELSE fs

\* assert not get_conflicts(smt_formulas), after the reduction.
ConflictAssertion(fs) ==
    get_conflicts(fs) = <<>> \/ get_conflicts(get_conflicts(fs)) = <<>>

\* A variant that knows no tree of any variable.
no_tree_substitutions(fs) == [v \in {} |-> fs[1]]

tree_substitutions(fs) ==
    LET vs == UNION {DOMAIN fs[i].subst : i \in 1..Len(fs)}
    IN  [v \in vs |-> fs[CHOOSE i \in 1..Len(fs) :
                            /\ v \in DOMAIN fs[i].subst
                            /\ \A j \in 1..Len(fs) : v \in DOMAIN fs[j].subst => j <= i].subst[v]]

SmtConstants(fs) == UNION {AtomVars(fs[i]) : i \in 1..Len(fs)}

\* The regular language a constant is constrained to (solver.py 923-937).
RECURSIVE ConcatRegex(_)
ConcatRegex(tokens) ==
    IF tokens = <<>> THEN {<<>>}
    ELSE LET first == IF is_nonterminal(Head(tokens))
                      THEN extract_regular_expression(Head(tokens))
                      ELSE {<<Head(tokens)>>}
         IN  {w \o rest : w \in first, rest \in ConcatRegex(Tail(tokens))}

ConstantRegex(fs, c) ==
    IF c \in DOMAIN tree_substitutions(fs)
    THEN ConcatRegex(TreeStr(tree_substitutions(fs)[c]))
    ELSE extract_regular_expression(VarType(c))

ArgValue(a, asg) == IF IsStr(a) THEN a.str ELSE asg[a.var]

\* A variant that asks every constant to differ from the previous solution.
EveryConstantDiffers(asg, prev_solution, cs) == \A c \in cs : asg[c] # prev_solution[c]

\* The formula added for a previous solution (939-942): the disjunction, over
\* the constants, of "the constant is not its previous value".
PreviousSolutionExcluded(asg, prev_solution, cs) == \E c \in cs : asg[c] # prev_solution[c]

\* z3_solve(formulas): the assignments of strings to the constants that lie
\* in the constants' languages, satisfy every formula and differ from every
\* previous solution in at least one constant.  The backend returns any one
\* of them; the empty set is "unsat".
z3_solve(fs, internal_solutions) ==
    LET cs == SmtConstants(fs)
        all == {asg \in [cs -> UNION {ConstantRegex(fs, c) : c \in cs}] :
                    \A c \in cs : asg[c] \in ConstantRegex(fs, c)}
    IN  {asg \in all :
            /\ \A i \in 1..Len(fs) :
                    EvalCmp(fs[i].op, ArgValue(fs[i].l, asg), ArgValue(fs[i].r, asg))
            /\ \A k \in 1..Len(internal_solutions) :
                    PreviousSolutionExcluded(asg, internal_solutions[k], cs)}

\* The loop of solve_quantifier_free_formula (solver.py 920-978): up to
\* max_number_smt_instantiations queries, each excluding the solutions found
\* so far; the first unsatisfiable query ends it.  The set of the sequences
\* of internal solutions the loop can end with.
RECURSIVE SmtLoop(_, _, _)
SmtLoop(fs, internal_solutions, n) ==
    IF n = 0 \/ z3_solve(fs, internal_solutions) = {} THEN {internal_solutions}
    ELSE UNION {SmtLoop(fs, Append(internal_solutions, asg), n - 1) :
                    asg \in z3_solve(fs, internal_solutions)}

RECURSIVE SeqSum(_)
SeqSum(ns) == IF ns = <<>> THEN 0 ELSE Head(ns) + SeqSum(Tail(ns))

\* The type of a constant of a cluster: that of its tree when it has one.
ConstantType(fs, c) ==
    IF c \in DOMAIN tree_substitutions(fs) THEN tree_substitutions(fs)[c].value
    ELSE VarType(c)

\* new_solution (solver.py 957-964): each constant's string is parsed into a
\* tree with fresh ids; the solution is keyed by the tree the constant
\* stands for (tm, by id; orig keeps that tree) or by the constant (vm).
NewSolution(fs, asg, base) ==
    LET cs == SetToSeq(SmtConstants(fs))
        parsed(k) == parse(ConstantType(fs, cs[k]), asg[cs[k]])
        sizes == [k \in 1..Len(cs) |-> StructSize(parsed(k))]
        tree(k) == WithIds(parsed(k), base + SeqSum(SubSeq(sizes, 1, k - 1)))
        bound == {k \in 1..Len(cs) : cs[k] \in DOMAIN tree_substitutions(fs)}
        key(k) == tree_substitutions(fs)[cs[k]].id
    IN  [tm |-> [i \in {key(k) : k \in bound} |-> tree(CHOOSE k \in bound : key(k) = i)],
         orig |-> [i \in {key(k) : k \in bound} |->
                        tree_substitutions(fs)[cs[CHOOSE k \in bound : key(k) = i]]],
         vm |-> [c \in {cs[k] : k \in (1..Len(cs)) \ bound} |->
                        tree(CHOOSE k \in 1..Len(cs) : cs[k] = c)],
         used |-> SeqSum(sizes)]

RECURSIVE NewSolutions(_, _, _)
NewSolutions(fs, internal_solutions, base) ==
    IF internal_solutions = <<>> THEN <<>>
    ELSE LET first == NewSolution(fs, Head(internal_solutions), base)
         IN  <<first>> \o NewSolutions(fs, Tail(internal_solutions), base + first.used)

\* solve_quantifier_free_formula(smt_formulas): the lists of solutions it
\* can return, one list for each way the backend can answer.
solve_quantifier_free_formula(smt_formulas, max_smt, base) ==
    {NewSolutions(SolvedFormulas(smt_formulas), run, base) :
        run \in SmtLoop(SolvedFormulas(smt_formulas), <<>>, max_smt)}

SolutionsUsed(sols) == SeqSum([j \in 1..Len(sols) |-> sols[j].used])

\* solution_1 | solution_2.
MergeSolutions(s1, s2) ==
    [tm |-> Merge(s1.tm, s2.tm), orig |-> Merge(s1.orig, s2.orig),
     vm |-> Merge(s1.vm, s2.vm), used |-> 0]

Min(a, b) == IF a < b THEN a ELSE b

\* solver.py 838-848: the solutions of a single cluster as they are; of
\* several clusters, for every ordered pair of different clusters the
\* solutions of the two are merged position by position (zip).
CombineSolutions(all_solutions) ==
    IF Len(all_solutions) = 1 THEN all_solutions[1]
    ELSE LET n == Len(all_solutions)
             pairs == SelectSeq(
                 Flatten([i \in 1..n |-> [j \in 1..n |-> <<i, j>>]]),
                 LAMBDA pr : pr[1] # pr[2])
         IN  Flatten([k \in 1..Len(pairs) |->
                [z \in 1..Min(Len(all_solutions[pairs[k][1]]), Len(all_solutions[pairs[k][2]])) |->
                    MergeSolutions(all_solutions[pairs[k][1]][z], all_solutions[pairs[k][2]][z])]])

\* solver.py 850-867: a solution for a tree is extended to all sub-trees of
\* that tree, path by path.
PathAssertion(sol) ==
    \A i \in DOMAIN sol.tm : \A p \in paths(sol.orig[i]) : is_valid_path(sol.tm[i], p)

\* A variant that maps the substituted trees themselves only.
solution_without_subtrees(sol) == [n \in DOMAIN sol.tm |-> sol.tm[n]]

solution_with_subtrees(sol) ==
    LET ids == UNION {NodeIds(sol.orig[i]) : i \in DOMAIN sol.orig}
        rootOf(n) == CHOOSE i \in DOMAIN sol.orig : HasNode(sol.orig[i], n)
    IN  [n \in ids |-> get_subtree(sol.tm[rootOf(n)], find_node(sol.orig[rootOf(n)], n))]

\* eliminate_semantic_formula(semantic_formula, state): the lists of
\* successors it can return, each with the number of fresh ids taken and
\* with whether its assertions held.
RECURSIVE ClusterSolutions(_, _, _, _)
ClusterSolutions(clusters, run, max_smt, base) ==
    IF clusters = <<>> THEN <<>>
    ELSE LET first == NewSolutions(SolvedFormulas(Head(clusters)), Head(run), base)
         IN  <<first>> \o ClusterSolutions(Tail(clusters), Tail(run), max_smt,
                                           base + SolutionsUsed(first))

\* The ways to pick one element from each set of a sequence of sets.
RECURSIVE RunChoices(_)
RunChoices(sets) ==
    IF sets = <<>> THEN {<<>>}
    ELSE {<<x>> \o rest : x \in Head(sets), rest \in RunChoices(Tail(sets))}

eliminate_semantic_formula(semantic_formula, state, max_smt, base) ==
    LET smt_formulas == rename_instantiated_variables_in_smt_formulas(
                            SelectKind(get_conjuncts(semantic_formula), "smt"))
        clusters == cluster_by_common_elements(smt_formulas)
        n == Len(clusters)
        loops == [k \in 1..n |-> SmtLoop(SolvedFormulas(clusters[k]), <<>>, max_smt)]
        runs == RunChoices(loops)
        result(r) ==
            LET all_solutions == ClusterSolutions(clusters, r, max_smt, base)
                solutions == CombineSolutions(all_solutions)
                ok == /\ \A k \in 1..n : ConflictAssertion(clusters[k])
                      /\ \A j \in 1..Len(solutions) : PathAssertion(solutions[j])
                new_state(sol) ==
                    IF DOMAIN sol.tm # {} \/ DOMAIN sol.vm # {}
                    THEN SolutionState(
                            substitute_expressions(state.constraint, sol.vm,
                                                   solution_with_subtrees(sol)),
                            substitute(state.tree, solution_with_subtrees(sol)), 0)
                    ELSE SolutionState(
                            replace_formula(state.constraint, semantic_formula, TrueF),
                            state.tree, 0)
            IN  [states |-> IF ok THEN [j \in 1..Len(solutions) |-> new_state(solutions[j])]
                            ELSE <<>>,
                 used |-> SeqSum([k \in 1..n |-> SolutionsUsed(all_solutions[k])]),
                 ok |-> ok]
    IN  {result(r) : r \in runs}

\* eliminate_all_semantic_formulas: the SMT conjuncts other than true are
\* moved to the front and solved together.
SemanticFormulas(state) ==
    SelectSeq(split_conjunction(state.constraint), LAMBDA f : f.kind \in {"smt", "false"})

eliminate_all_semantic_formulas(state, max_smt, base) ==
    LET conjuncts == split_conjunction(state.constraint)
        semantic_formulas == SemanticFormulas(state)
        prefix_conjunction == AndAll(semantic_formulas)
        new_disjunct ==
            And(prefix_conjunction,
                AndAll(SelectSeq(conjuncts, LAMBDA f : \A i \in 1..Len(semantic_formulas) :
                                                            semantic_formulas[i] # f)))
    IN  eliminate_semantic_formula(prefix_conjunction,
                                   SolutionState(new_disjunct, state.tree, 0), max_smt, base)

\* --------------------------------------------------------- successor path
\* establish_invariant: the disjuncts of the DNF, each its own state.
\* A variant that leaves the constraint as it is.
keep_constraint(state) == <<state>>

establish_invariant(state) ==
    LET ds == split_disjunction(convert_to_dnf(state.constraint))
    IN  [i \in 1..Len(ds) |-> SolutionState(ds[i], state.tree, 0)]

RECURSIVE ReplaceAllBy(_, _, _)
ReplaceAllBy(f, olds, new) ==
    IF olds = <<>> THEN f ELSE ReplaceAllBy(replace_formula(f, Head(olds), new), Tail(olds), new)

\* remove_nonmatching_universal_quantifiers: a universal conjunct over a
\* complete tree without any match becomes true.
remove_nonmatching_universal_quantifiers(state) ==
    LET gone == SelectSeq(SelectKind(get_conjuncts(state.constraint), "forall"),
                    LAMBDA uf : /\ IsTree(uf.in) /\ is_complete(uf.in.tree)
                                /\ matches_for_quantified_formula(uf) = <<>>)
    IN  SolutionState(ReplaceAllBy(state.constraint, gone, TrueF), state.tree, 0)

\* A variant that drops every universal conjunct, matched or not.
remove_all_universal_quantifiers(state) ==
    SolutionState(ReplaceAllBy(state.constraint,
                               SelectKind(get_conjuncts(state.constraint), "forall"), TrueF),
                  state.tree, 0)

\* A variant that leaves every universal formula in place.
keep_universal_quantifiers(state) == state

\* remove_infeasible_universal_quantifiers: a universal conjunct that no
\* open leaf of its tree might match and that has no unmatched match becomes
\* true.
remove_infeasible_universal_quantifiers(state) ==
    LET gone == SelectSeq(SelectKind(get_conjuncts(state.constraint), "forall"),
                    LAMBDA uf : IsTree(uf.in) /\
                        ~ \/ \E p \in open_leaves(uf.in.tree) :
                                  quantified_formula_might_match(uf, p, uf.in.tree)
                          \/ UnmatchedMatches(uf) # <<>>)
    IN  SolutionState(ReplaceAllBy(state.constraint, gone, TrueF), state.tree, 0)

\* ----------------------------------------------------------- symbol costs
\* A grammar as compute_symbol_costs reads it: the nonterminals in the order
\* of the dictionary, and the alternatives of each.
Grammar(order, rules) == [order |-> order, rules |-> rules]

\* The grammar of this model.
ListGrammar == Grammar(<<"<start>", "<list>", "<var>">>, ListRules)

\* The nonterminals of an expansion, in order.
NonterminalsOf(g, expansion) == SelectSeq(expansion, LAMBDA s : s \in DOMAIN g.rules)

\* The cost the fuzzer gives an expansion that leads back into `seen`.
Infinite == 99

MinOf(S) == CHOOSE m \in S : \A x \in S : m <= x

RECURSIVE symbol_cost(_, _, _)
RECURSIVE expansion_cost(_, _, _)
RECURSIVE SymbolCostSum(_, _, _)

\* The fuzzer's symbol_cost: the cost of the cheapest expansion.
symbol_cost(g, symbol, seen) ==
    MinOf({expansion_cost(g, g.rules[symbol][i], seen \cup {symbol}) :
               i \in 1..Len(g.rules[symbol])})

SymbolCostSum(g, symbols, seen) ==
    IF symbols = <<>> THEN 0
    ELSE Min(Infinite, symbol_cost(g, Head(symbols), seen)
                           + SymbolCostSum(g, Tail(symbols), seen))

\* The fuzzer's expansion_cost.
expansion_cost(g, expansion, seen) ==
    IF NonterminalsOf(g, expansion) = <<>> THEN 1
    ELSE IF \E s \in SeqRange(NonterminalsOf(g, expansion)) : s \in seen THEN Infinite
    ELSE Min(Infinite, SymbolCostSum(g, NonterminalsOf(g, expansion), seen) + 1)

\* The expansions expand_node_min_cost chooses among, at random.
MinCostExpansions(g, symbol) ==
    {i \in 1..Len(g.rules[symbol]) :
        expansion_cost(g, g.rules[symbol][i], {symbol}) =
            MinOf({expansion_cost(g, g.rules[symbol][j], {symbol}) :
                       j \in 1..Len(g.rules[symbol])})}

\* The number of expansions of a symbol having a nonterminal (1153-1154).
NonterminalExpansions(g, symbol) ==
    Cardinality({i \in 1..Len(g.rules[symbol]) :
                    NonterminalsOf(g, g.rules[symbol][i]) # <<>>})

RECURSIVE TreeCosts(_, _)
RECURSIVE ChildrenCosts(_, _)

\* The sums of line 1153 over the trees the fuzzer can close a symbol to:
\* every node is expanded by an expansion of least cost.
TreeCosts(g, symbol) ==
    UNION {{NonterminalExpansions(g, symbol) + c :
                c \in ChildrenCosts(g, NonterminalsOf(g, g.rules[symbol][i]))} :
           i \in MinCostExpansions(g, symbol)}

ChildrenCosts(g, symbols) ==
    IF symbols = <<>> THEN {0}
    ELSE {a + b : a \in TreeCosts(g, Head(symbols)), b \in ChildrenCosts(g, Tail(symbols))}

\* The results of the first loop (1149-1158).
InitialCosts(g) ==
    {c \in [DOMAIN g.rules -> UNION {TreeCosts(g, n) : n \in DOMAIN g.rules}] :
        \A n \in DOMAIN g.rules : c[n] \in TreeCosts(g, n)}

\* The nodes of the grammar graph: a nonterminal (choice 0) or one of its
\* alternatives.
GraphNode(symbol, choice) == [symbol |-> symbol, choice |-> choice]

\* The children of a node that are not terminal nodes.
NodeChildren(g, node) ==
    IF node.choice = 0
    THEN [i \in 1..Len(g.rules[node.symbol]) |-> GraphNode(node.symbol, i)]
    ELSE [k \in 1..Len(NonterminalsOf(g, g.rules[node.symbol][node.choice])) |->
              GraphNode(NonterminalsOf(g, g.rules[node.symbol][node.choice])[k], 0)]

GraphNodes(g) ==
    UNION {{GraphNode(n, i) : i \in 0..Len(g.rules[n])} : n \in DOMAIN g.rules}

Visit(queue, visited) == [queue |-> queue, visited |-> visited]

RECURSIVE VisitChildren(_, _, _, _, _)
\* The loop of lines 1177-1182 over the children of the last node of p.
VisitChildren(p, node_children, cycles_allowed, queue, visited) ==
    IF node_children = <<>> THEN Visit(queue, visited)
    ELSE IF visited[Head(node_children)] > cycles_allowed + 1
    THEN VisitChildren(p, Tail(node_children), cycles_allowed, queue, visited)
    ELSE VisitChildren(p, Tail(node_children), cycles_allowed,
                       Append(queue, Append(p, Head(node_children))),
                       [visited EXCEPT ![Head(node_children)] = @ + 1])

RECURSIVE PathsLoop(_, _, _, _, _, _)
PathsVisited(g, to_node, cycles_allowed, visit, result) ==
    PathsLoop(g, to_node, cycles_allowed, visit.queue, visit.visited, result)

\* The loop of lines 1171-1182.
PathsLoop(g, to_node, cycles_allowed, queue, visited, result) ==
    IF queue = <<>> THEN result
    ELSE IF Head(queue)[Len(Head(queue))] = to_node
    THEN PathsLoop(g, to_node, cycles_allowed, Tail(queue), visited,
                   Append(result, Head(queue)))
    ELSE PathsVisited(g, to_node, cycles_allowed,
                      VisitChildren(Head(queue),
                                    NodeChildren(g, Head(queue)[Len(Head(queue))]),
                                    cycles_allowed, Tail(queue), visited),
                      result)

\* A path without its choice nodes, as symbols (1184).
PathSymbols(p) ==
    [k \in 1..Len(SelectSeq(p, LAMBDA n : n.choice = 0)) |->
         SelectSeq(p, LAMBDA n : n.choice = 0)[k].symbol]

\* all_paths.
all_paths(g, from_node, to_node, cycles_allowed) ==
    [k \in 1..Len(PathsLoop(g, to_node, cycles_allowed, <<<<from_node>>>>,
                            [n \in GraphNodes(g) |-> 0], <<>>)) |->
         PathSymbols(PathsLoop(g, to_node, cycles_allowed, <<<<from_node>>>>,
                               [n \in GraphNodes(g) |-> 0], <<>>)[k])]

\* nonterminal_parents (1186-1191).
nonterminal_parents(g) ==
    SelectSeq(g.order, LAMBDA n : NonterminalExpansions(g, n) > 0)

RECURSIVE CorrectPath(_, _, _)
\* The loop of lines 1200-1205 from index idx down.
CorrectPath(result, path, idx) ==
    IF idx < 2 THEN result
    ELSE IF result[path[idx - 1]] <= result[path[idx]]
    THEN CorrectPath([result EXCEPT ![path[idx - 1]] = result[path[idx]] + 1], path, idx - 1)
    ELSE CorrectPath(result, path, idx - 1)

RECURSIVE CorrectPaths(_, _)
\* The loop of line 1199.
CorrectPaths(result, found) ==
    IF found = <<>> THEN result
    ELSE CorrectPaths(CorrectPath(result, Head(found), Len(Head(found))), Tail(found))

RECURSIVE CorrectParents(_, _, _)
\* The loop of line 1198.
CorrectParents(g, result, parents) ==
    IF parents = <<>> THEN result
    ELSE CorrectParents(g,
             CorrectPaths(result, all_paths(g, GraphNode("<start>", 0),
                                            GraphNode(Head(parents), 0), 1)),
             Tail(parents))

\* compute_symbol_costs: the results it can return.
compute_symbol_costs(g) ==
    {CorrectParents(g, c, nonterminal_parents(g)) : c \in InitialCosts(g)}

\* self.symbol_costs (217): the single result of compute_symbol_costs for
\* the grammar of the model, compute_symbol_costs(ListGrammar), tabulated.
symbol_costs == ("<start>" :> 3) @@ ("<list>" :> 2) @@ ("<var>" :> 0)

\* compute_tree_closing_cost.
compute_tree_closing_cost(t) ==
    SeqSum([k \in 1..Len(SetToSeq(open_leaves(t))) |->
                symbol_cost_result[get_subtree(t, SetToSeq(open_leaves(t))[k]).value]])

\* get_quantifier_chains, as the nesting depths idx of the quantifiers of the
\* chains: constraint_cost sums idx * (2 for an existential, else 1) + 1.
RECURSIVE ChainCost(_, _)
ChainCost(f, idx) ==
    CASE f.kind \in {"and", "or"} -> ChainCost(f.l, idx) + ChainCost(f.r, idx)
      [] f.kind \in {"forall", "exists", "intro"} ->
            idx * (IF f.kind = "exists" THEN 2 ELSE 1) + 1 + ChainCost(f.body, idx + 1)
      [] OTHER -> 0

\* get_toplevel_quantified_formulas: the quantified formulas and numeric
\* constant introductions that are not below another one.
RECURSIVE get_toplevel_quantified_formulas(_)
get_toplevel_quantified_formulas(f) ==
    CASE f.kind \in {"forall", "exists", "intro"} -> <<f>>
      [] f.kind \in {"and", "or"} ->
            get_toplevel_quantified_formulas(f.l) \o get_toplevel_quantified_formulas(f.r)
      [] OTHER -> <<>>

\* A variant that has no chain for a quantified formula whose inner formula
\* has none.
RECURSIVE get_nested_quantifier_chains(_)
get_nested_quantifier_chains(f) ==
    LET tops == get_toplevel_quantified_formulas(f)
    IN  Flatten([i \in 1..Len(tops) |->
            LET inner == get_nested_quantifier_chains(tops[i].body)
            IN  [j \in 1..Len(inner) |-> <<tops[i]>> \o inner[j]]])

\* get_quantifier_chains (1343-1346): every top-level quantified formula is
\* put before every chain of its inner formula, or stands alone when the
\* inner formula has no chain.
RECURSIVE get_quantifier_chains(_)
get_quantifier_chains(f) ==
    LET tops == get_toplevel_quantified_formulas(f)
    IN  Flatten([i \in 1..Len(tops) |->
            LET inner == get_quantifier_chains(tops[i].body)
            IN  IF inner = <<>> THEN << <<tops[i]>> >>
                ELSE [j \in 1..Len(inner) |-> <<tops[i]>> \o inner[j]]])

\* self.quantifier_chains (203-206): the universal formulas of each chain;
\* a chain without one is left out.
universal_chains(f) ==
    SelectSeq([i \in 1..Len(get_quantifier_chains(f)) |->
                    SelectSeq(get_quantifier_chains(f)[i], LAMBDA q : q.kind = "forall")],
              LAMBDA c : c # <<>>)

\* compute_cost: 0 for the constraint true; else a positive number that grows
\* with the closing cost of the tree, the cost of the quantifier chains and
\* the level.  The weighted geometric mean comes from a library outside the
\* solver; a sum of the components stands for it.  The global k-coverage
\* cost is a quotient and is kept apart, as its numerator and denominator
\* (num_contributed_k_paths, num_missing_k_paths).
StateCost(state) ==
    IF state.constraint = TrueF THEN 0
    ELSE 1 + compute_tree_closing_cost(state.tree) + ChainCost(state.constraint, 0)
           + state.level

\* The cost settings: the number of weight vectors and the phase lengths.
cost_phase_lengths == <<2, 3>>
NumWeightVectors == Len(cost_phase_lengths)

\* The dangling-argument checks of state_is_valid_or_enqueue (1049-1074).
DanglingPredicateArguments(state) ==
    {<<i, j>> \in (1..Len(Collect(state.constraint, "pred"))) \X (1..2) :
        LET a == Collect(state.constraint, "pred")[i].args[j]
        IN  IsTree(a) /\ ~HasNode(state.tree, a.tree.id)}

DanglingSmtArguments(state) ==
    LET fs == Collect(state.constraint, "smt")
    IN  UNION {{<<i, v>> : v \in {u \in DOMAIN fs[i].subst :
                                    ~HasNode(state.tree, fs[i].subst[u].id)}} :
               i \in 1..Len(fs)}

NoDanglingArguments(state) ==
    DanglingPredicateArguments(state) = {} /\ DanglingSmtArguments(state) = {}

\* ------------------------------------------------- existential elimination
\* The children of one production applied around the inserted tree: the
\* tree at child k, fresh open nodes (or terminal leaves) elsewhere.
ContextChildren(alt, k, tree, base) ==
    [j \in 1..Len(alt) |->
        IF j = k THEN tree
        ELSE IF is_nonterminal(alt[j]) THEN OpenNode(alt[j], base + j)
        ELSE Node(alt[j], base + j, <<>>)]

\* The places <<alternative, child>> of the productions of a symbol.
Slots(sym) ==
    UNION {{<<a, k>> : k \in 1..Len(canonical_grammar[sym][a])} :
              a \in 1..Len(canonical_grammar[sym])}

SlotSymbol(sym, s) == canonical_grammar[sym][s[1]][s[2]]

\* Direct embedding: the minimally expanded contexts below a node of symbol
\* sym (which keeps its identity id) that end in the inserted tree.
RECURSIVE EmbeddingContexts(_, _, _, _)
EmbeddingContexts(sym, id, tree, base) ==
    IF \E s \in Slots(sym) : SlotSymbol(sym, s) = tree.value
    THEN {Node(sym, id, ContextChildren(canonical_grammar[sym][s[1]], s[2], tree, base)) :
             s \in {r \in Slots(sym) : SlotSymbol(sym, r) = tree.value}}
    ELSE UNION {{Node(sym, id, ContextChildren(canonical_grammar[sym][s[1]], s[2], c, base)) :
                    c \in EmbeddingContexts(SlotSymbol(sym, s), base + s[2], tree,
                                            base + Len(canonical_grammar[sym][s[1]]))} :
                s \in {r \in Slots(sym) : /\ is_nonterminal(SlotSymbol(sym, r))
                                          /\ SlotSymbol(sym, r) # sym
                                          /\ reachable(SlotSymbol(sym, r), tree.value)}}

\* The direct embeddings at the open leaves of the host, leaf by leaf.
EmbedAtLeaves(tree, in_tree, base, leaves) ==
    Flatten([k \in 1..Len(leaves) |->
        SetToSeq({replace_path(in_tree, leaves[k], c) :
            c \in EmbeddingContexts(get_subtree(in_tree, leaves[k]).value,
                                    get_subtree(in_tree, leaves[k]).id, tree, base)})])

\* insert_tree(canonical_grammar, tree, in_tree): the host trees that keep
\* every node of in_tree, with its identity, and contain the inserted tree.
\* Direct embedding replaces an open leaf whose symbol reaches the root of
\* the inserted tree.  Self embedding needs a self-reachable root symbol of
\* the inserted tree and context addition a symbol that reaches the root of
\* the host: with inserted trees of type <var> and hosts rooted at <start>
\* neither has a result.
insert_tree(tree, in_tree, base) ==
    EmbedAtLeaves(tree, in_tree, base,
        SelectSeq(paths_list(in_tree),
                  LAMBDA q : /\ get_subtree(in_tree, q).open
                             /\ reachable(get_subtree(in_tree, q).value, tree.value)))

\* sorted(insertion_results, key = compute_tree_closing_cost): stable.
RECURSIVE InsertSorted(_, _)
InsertSorted(sorted, t) ==
    IF sorted = <<>> THEN <<t>>
    ELSE IF compute_tree_closing_cost(t) < compute_tree_closing_cost(Head(sorted))
         THEN <<t>> \o sorted
         ELSE <<Head(sorted)>> \o InsertSorted(Tail(sorted), t)

\* A variant that puts the trees of greatest closing cost first.
RECURSIVE InsertByGreatestCost(_, _)
InsertByGreatestCost(sorted, t) ==
    IF sorted = <<>> THEN <<t>>
    ELSE IF compute_tree_closing_cost(t) > compute_tree_closing_cost(Head(sorted))
         THEN <<t>> \o sorted
         ELSE <<Head(sorted)>> \o InsertByGreatestCost(Tail(sorted), t)

RECURSIVE SortByGreatestCost(_)
SortByGreatestCost(ts) ==
    IF ts = <<>> THEN <<>>
    ELSE InsertByGreatestCost(SortByGreatestCost(SubSeq(ts, 1, Len(ts) - 1)), ts[Len(ts)])

RECURSIVE SortByClosingCost(_)
SortByClosingCost(ts) ==
    IF ts = <<>> THEN <<>>
    ELSE InsertSorted(SortByClosingCost(SubSeq(ts, 1, Len(ts) - 1)), ts[Len(ts)])

\* insertion_results[:max_number_tree_insertion_results].
FirstResults(ts, n) == SubSeq(ts, 1, Min(Len(ts), n))

\* The greatest identity in a sequence of trees, at least least.
RECURSIVE MaxId(_, _)
MaxId(ts, least) ==
    IF ts = <<>> THEN least
    ELSE IF \E i \in NodeIds(Head(ts)) : i > MaxId(Tail(ts), least)
         THEN CHOOSE i \in NodeIds(Head(ts)) : \A j \in NodeIds(Head(ts)) : j <= i
         ELSE MaxId(Tail(ts), least)

\* The checks of 753-783 on a state made by tree insertion: a tree argument
\* of a structural predicate conjunct, or a tree of the substitutions of an
\* SMT conjunct, that is not in the tree of the state.
LostInConjuncts(cs, tree) ==
    \E c \in 1..Len(cs) :
        \/ /\ cs[c].kind = "pred"
           /\ \E a \in 1..Len(cs[c].args) :
                 IsTree(cs[c].args[a]) /\ ~HasNode(tree, cs[c].args[a].tree.id)
        \/ /\ cs[c].kind = "smt"
           /\ \E v \in DOMAIN cs[c].subst : ~HasNode(tree, cs[c].subst[v].id)

LostInStates(invstates) ==
    \E k \in 1..Len(invstates) :
        LostInConjuncts(get_conjuncts(invstates[k].constraint), invstates[k].tree)

LostArguments(new_state) == LostInStates(establish_invariant(new_state))

\* One state per match: the inner formula with the bound variable at the
\* matched sub-tree, the formula itself replaced by true (667-672).
MatchStates(existential_formula, state, matches) ==
    [k \in 1..Len(matches) |->
        SolutionState(
            And(substitute_expressions(
                    existential_formula.body,
                    [v \in {existential_formula.bv} |->
                        get_subtree(existential_formula.in.tree, matches[k])],
                    EmptyMap),
                replace_formula(state.constraint, existential_formula, TrueF)),
            state.tree, 0)]

\* match_existential_formula (660-674).
match_existential_formula(existential_formula, state) ==
    MatchStates(existential_formula, state,
                matches_for_quantified_formula(existential_formula))

\* tree_substitution (713-719): the nodes of the tree whose path is a path
\* of the resulting tree with the same symbol and another structure, each
\* mapped to the node at its path in the resulting tree.
TreeSubstitution(tree, resulting_tree) ==
    [i \in {get_subtree(tree, p).id :
               p \in {q \in paths(tree) :
                        /\ is_valid_path(resulting_tree, q)
                        /\ get_subtree(tree, q).value = get_subtree(resulting_tree, q).value
                        /\ ~structurally_equal(get_subtree(resulting_tree, q),
                                               get_subtree(tree, q))}} |->
        get_subtree(resulting_tree, find_node(tree, i))]

\* new_formula and new_state (740-751).
NewState(existential_formula, state, self_formula, variable_substitutions, tree_substitution, new_tree) ==
    SolutionState(
        And(And(substitute_expressions(existential_formula.body,
                                       variable_substitutions, EmptyMap),
                substitute_expressions(self_formula, [v \in {"start"} |-> new_tree],
                                       EmptyMap)),
            substitute_expressions(
                replace_formula(state.constraint, existential_formula, TrueF),
                EmptyMap, tree_substitution)),
        new_tree, 0)

SubstitutedState(existential_formula, state, self_formula, variable_substitutions, tree_substitution) ==
    NewState(existential_formula, state, self_formula, variable_substitutions,
             tree_substitution, substitute(state.tree, tree_substitution))

\* The state tree insertion makes of one insertion result (706-751).
InsertionState(existential_formula, state, self_formula, variable_substitutions, insertion_result) ==
    SubstitutedState(existential_formula, state, self_formula, variable_substitutions,
        TreeSubstitution(state.tree,
            replace_path(state.tree,
                         find_node(state.tree, existential_formula.in.tree.id),
                         insertion_result)))

InsertionStates(existential_formula, state, self_formula, variable_substitutions, insertion_results) ==
    [k \in 1..Len(insertion_results) |->
        InsertionState(existential_formula, state, self_formula, variable_substitutions,
                       insertion_results[k])]

\* The result of a rule: its states, the identities it took and whether
\* its assertions held.
Checked(result, used) ==
    [states |-> result, used |-> used,
     ok |-> \A k \in 1..Len(result) : ~LostArguments(result[k])]

\* variable_substitutions (721, 734-738): the bound variable stands for the
\* inserted tree, a variable of the match expression for the sub-tree of the
\* inserted tree at its path.
VariableSubstitutions(existential_formula, inserted_tree, bind_expr_paths) ==
    [v \in {existential_formula.bv} \cup DOMAIN bind_expr_paths |->
        IF v = existential_formula.bv THEN inserted_tree
        ELSE get_subtree(inserted_tree, bind_expr_paths[v])]

InsertSortedResults(existential_formula, state, self_formula, base, max_results, variable_substitutions, sorted) ==
    Checked(InsertionStates(existential_formula, state, self_formula,
                            variable_substitutions,
                            FirstResults(sorted, max_results)),
            MaxId(sorted, base) - base + 1)

\* The body of the loop at 688-783 for one inserted tree: the insertion
\* results are sorted by their closing cost and the first max_results of
\* them are made into states.
InsertOneTree(existential_formula, state, self_formula, base, max_results, inserted_tree, bind_expr_paths) ==
    InsertSortedResults(existential_formula, state, self_formula, base, max_results,
        VariableSubstitutions(existential_formula, inserted_tree, bind_expr_paths),
        SortByClosingCost(insert_tree(inserted_tree, existential_formula.in.tree,
                                      MaxId(<<inserted_tree>>, base) + 1)))

\* A match expression is given by what bind_expression.to_tree_prefix
\* returns for it: the tree prefixes, each with the paths of the variables
\* it binds.  An optional element gives one prefix with it and one without.
HasBindExpression(f) == "bind_expression" \in DOMAIN f

\* inserted_trees_and_bind_paths (678-682).
inserted_trees_and_bind_paths(existential_formula) ==
    IF HasBindExpression(existential_formula)
    THEN existential_formula.bind_expression
    ELSE <<[tree |-> [value |-> existential_formula.ntype, open |-> TRUE, children |-> <<>>],
            paths |-> EmptyMap]>>

\* result of one inserted tree and of the ones after it.
Joined(first, rest) ==
    [states |-> first.states \o rest.states,
     used |-> first.used + rest.used,
     ok |-> first.ok /\ rest.ok]

RECURSIVE InsertTrees(_, _, _, _, _, _)
InsertFurtherTrees(first, existential_formula, state, self_formula, base, max_results, trees) ==
    Joined(first, InsertTrees(existential_formula, state, self_formula,
                              base + first.used, max_results, trees))

\* The loop at 688: every inserted tree gets its own insertion results.
InsertTrees(existential_formula, state, self_formula, base, max_results, trees) ==
    IF trees = <<>> THEN [states |-> <<>>, used |-> 0, ok |-> TRUE]
    ELSE InsertFurtherTrees(
             InsertOneTree(existential_formula, state, self_formula, base, max_results,
                           WithIds(Head(trees).tree, base), Head(trees).paths),
             existential_formula, state, self_formula, base, max_results, Tail(trees))

\* eliminate_existential_formula (676-791): the inserted trees get fresh
\* identities from base on and max_results is
\* max_number_tree_insertion_results.  ok is FALSE when an assertion of
\* 753-783 fails.
eliminate_existential_formula(existential_formula, state, self_formula, base, max_results) ==
    InsertTrees(existential_formula, state, self_formula, base, max_results,
                inserted_trees_and_bind_paths(existential_formula))

\* The loop of 527-538: every existential conjunct is matched in every
\* state of the round; a state without a match stays as it is.  The states
\* are taken from the end of the list (new_states.pop()).
MatchOrKeep(s, match_result) == IF match_result # <<>> THEN match_result ELSE <<s>>

RECURSIVE MatchRound(_, _)
MatchRound(existential_formula, new_states) ==
    IF new_states = <<>> THEN <<>>
    ELSE MatchOrKeep(new_states[Len(new_states)],
                     match_existential_formula(existential_formula,
                                               new_states[Len(new_states)]))
         \o MatchRound(existential_formula, SubSeq(new_states, 1, Len(new_states) - 1))

RECURSIVE MatchRounds(_, _)
MatchRounds(existential_formulas, new_states) ==
    IF existential_formulas = <<>> THEN new_states
    ELSE MatchRounds(Tail(existential_formulas),
                     MatchRound(Head(existential_formulas), new_states))

ExistentialFormulas(state) == SelectKind(split_conjunction(state.constraint), "exists")

\* new_states.extend(elimination_result) (555-556).
Extended(new_states, elimination_result) ==
    [states |-> new_states \o elimination_result.states,
     used |-> elimination_result.used,
     ok |-> elimination_result.ok]

\* A variant that inserts a tree whatever the matching gave.
AlwaysInserted(state, self_formula, base, max_results, new_states, complete_states) ==
    Extended(new_states,
             eliminate_existential_formula(ExistentialFormulas(state)[1], state,
                                           self_formula, base, max_results))

\* 549-559: the complete states alone if there are any, else the matched
\* states and the insertions for the first existential formula.
CompleteOrInserted(state, self_formula, base, max_results, new_states, complete_states) ==
    IF complete_states # <<>>
    THEN [states |-> complete_states, used |-> 0, ok |-> TRUE]
    ELSE Extended(new_states,
                  eliminate_existential_formula(ExistentialFormulas(state)[1], state,
                                                self_formula, base, max_results))

AfterMatching(state, self_formula, base, max_results, new_states) ==
    CompleteOrInserted(state, self_formula, base, max_results, new_states,
        SelectSeq(new_states, LAMBDA s : complete(s) \/ s.constraint = TrueF))

\* 540-541: nothing matched.
Unless(state, matched) == IF matched = <<state>> THEN <<>> ELSE matched

\* eliminate_first_match_all_existential_formulas (518-561), for a state
\* with an existential conjunct.
eliminate_first_match_all_existential_formulas(state, self_formula, base, max_results) ==
    AfterMatching(state, self_formula, base, max_results,
        Unless(state, MatchRounds(ExistentialFormulas(state), <<state>>)))

\* ------------------------------------------------------------------ state
VARIABLES
    formula,                         \* self.formula
    enforce_unique_trees_in_queue,
    max_number_free_instantiations,
    max_number_smt_instantiations,
    max_number_tree_insertion_results,
    timeout_seconds,                 \* None is NoTimeout
    queue,                           \* the heap: entries [cost, state]
    tree_hashes_in_queue,
    current_level,
    current_cost_phase,
    current_cost_phase_since,
    enqueued_in_phase,               \* states pushed since the phase began (the
                                     \* solver keeps no such count)
    next_id,                         \* DerivationTree.next_id
    pc,                              \* where solve() stands
    current_state,                   \* the state of the last pop (310, 315)
    current_cost,                    \* the cost it was popped with (310)
    applied_rule,                    \* the rule the iteration has applied
    pending,                         \* trees of the running `yield from`
    ret,                             \* where solve() goes on after them
    fuzz_state,                      \* the state free fuzzing completes
    fuzz_left,                       \* iterations the fuzzing loop has left
    yielded,                         \* the structural hashes of the trees yielded
    elapsed,                         \* int(time.time()) - start_time
    truncated,                       \* a successor was beyond MaxTreeSize
    failed,                          \* the assertion that failed, or "none"
    smt_state,                       \* the state eliminate_all_semantic_formulas is called on
    smt_formulas,                    \* the cluster solve_quantifier_free_formula is called on
    solutions,                       \* what solve_quantifier_free_formula returned
    results,                         \* what eliminate_all_semantic_formulas returned
    nonterminal,                     \* the nonterminal parse is called on
    input,                           \* the word parse is called on
    outcome,                         \* how the call ended
    parsed,                          \* the tree the call returned
    successors,                      \* the states the last iteration passed to
                                     \* state_is_valid_or_enqueue (the solver
                                     \* keeps no such list)
    covered_k_paths,                 \* self.covered_k_paths
    quantifier_chains,               \* self.quantifier_chains
    path_1,                          \* the paths is_before is called on
    path_2,
    in_tree,                         \* the arguments count is called on
    needle,
    num,
    evaluation_result                \* the SemPredEvalResult it returned

vars == <<formula, enforce_unique_trees_in_queue, max_number_free_instantiations,
          max_number_smt_instantiations, max_number_tree_insertion_results,
          timeout_seconds, queue, tree_hashes_in_queue,
          current_level, current_cost_phase, current_cost_phase_since,
                   enqueued_in_phase, next_id, pc,
          current_state, current_cost, applied_rule, pending, ret, fuzz_state, fuzz_left, yielded, elapsed, truncated, failed,
          smt_state, smt_formulas, solutions, results,
          grammar, symbol_cost_result, nonterminal, input, outcome, parsed,
          successors, covered_k_paths, quantifier_chains,
          path_1, path_2, in_tree, needle, num, evaluation_result>>

\* The variables of a call of a predicate.
predicates == <<path_1, path_2, in_tree, needle, num, evaluation_result>>

\* The variables of the calls besides solve().
interface == <<grammar, symbol_cost_result, nonterminal, input, outcome, parsed,
               quantifier_chains, predicates>>

\* The variables of a single call of the SMT elimination.
call == <<smt_state, smt_formulas, solutions, results>>

config == <<formula, enforce_unique_trees_in_queue, max_number_free_instantiations,
            max_number_smt_instantiations, max_number_tree_insertion_results,
            timeout_seconds>>

\* The locals of an iteration of solve().
iteration == <<current_state, current_cost, applied_rule>>

NoTimeout == -1
NoState == SolutionState(TrueF, OpenNode("<start>", 0), 0)

\* ------------------------------------------------------ the constraints
VarEq(v, w) == SMT("eq", VarArg(v), StrArg(w), {v}, EmptyMap)
VarNe(v, w) == SMT("ne", VarArg(v), StrArg(w), {v}, EmptyMap)
ForallVar(v, body) == Forall(v, "<var>", VarArg("start"), body, {})
ExistsVar(v, body) == Exists(v, "<var>", VarArg("start"), body)

Formulas ==
    { TrueF,
      ForallVar("v", VarEq("v", <<"a">>)),
      ForallVar("v", VarEq("v", <<"a", "a">>)),
      ForallVar("v", VarNe("v", <<"a">>)),
      And(ForallVar("v", VarEq("v", <<"a">>)), ForallVar("w", VarEq("w", <<"b">>))),
      Or(ForallVar("v", VarEq("v", <<"a">>)), ForallVar("w", VarEq("w", <<"b">>))),
      VarEq("start", <<"a", "b">>),
      VarNe("start", <<"a">>),
      And(VarEq("start", <<"a">>), VarEq("start", <<"b">>)),
      ForallVar("v", Pred("before", <<VarArg("v"), VarArg("v")>>)),
      Pred("before", <<VarArg("start"), VarArg("start")>>),
      ForallVar("v", TrueF),
      ForallVar("v", Or(VarEq("v", <<"a">>), VarEq("v", <<"b">>))),
      ExistsVar("v", VarEq("v", <<"a">>)),
      ExistsVar("v", ExistsVar("w", Pred("before", <<VarArg("v"), VarArg("w")>>))),
      And(ForallVar("v", VarNe("v", <<"a">>)), ExistsVar("w", VarEq("w", <<"b">>))) }

\* ------------------------------------------------------------ enqueueing
\* compute_cost (1118-1143): the phase advances when more than the phase's
\* length of states were enqueued since it began; the cost of a state with
\* the constraint true is 0 and leaves the phase alone.
PhaseAdvances(acc, state) ==
    /\ state.constraint # TrueF
    /\ Len(acc.queue) - acc.since > cost_phase_lengths[acc.phase + 1]

\* CostSettings.k (149: the default is 3).
cost_settings_k == 3

\* The nodes of the grammar graph: the nonterminals and the terminals.
GraphSymbols ==
    DOMAIN canonical_grammar \cup
    UNION {UNION {SeqRange(canonical_grammar[n][i]) : i \in 1..Len(canonical_grammar[n])} :
             n \in DOMAIN canonical_grammar}

\* The symbols of the alternatives of a nonterminal; a terminal has none.
GraphSuccessors(s) ==
    IF s \in DOMAIN canonical_grammar
    THEN UNION {SeqRange(canonical_grammar[s][i]) : i \in 1..Len(canonical_grammar[s])}
    ELSE {}

\* graph.k_paths(k): the paths of k nodes through the grammar graph.
RECURSIVE graph_k_paths(_)
graph_k_paths(n) ==
    IF n = 1 THEN {<<s>> : s \in GraphSymbols}
    ELSE UNION {{Append(p, s) : s \in GraphSuccessors(p[Len(p)])} : p \in graph_k_paths(n - 1)}

\* tree.k_paths(graph, k): the paths of k nodes the tree has, from a node
\* down to a descendant.
tree_k_paths(t, n) ==
    {[i \in 1..n |-> get_subtree(t, SubSeq(p, 1, Len(p) - n + i)).value] :
        p \in {q \in paths(t) : Len(q) >= n - 1}}

\* compute_global_k_coverage_cost (1328-1336): the cost is
\* 1 - num_contributed_k_paths / num_missing_k_paths.
num_contributed_k_paths(covered, state) ==
    Cardinality({p \in graph_k_paths(cost_settings_k) :
                    p \in tree_k_paths(state.tree, cost_settings_k) /\ p \notin covered})

num_missing_k_paths(covered) ==
    Cardinality(graph_k_paths(cost_settings_k)) - Cardinality(covered)

compute_cost(acc, state) ==
    IF state.constraint = TrueF THEN acc
    ELSE LET acc1 == IF PhaseAdvances(acc, state)
                     THEN [acc EXCEPT !.since = Len(acc.queue),
                                      !.phase = (@ + 1) % NumWeightVectors,
                                      !.enqueued = 0]
                     ELSE acc
         IN  IF num_missing_k_paths(acc.covered) = 0
             THEN [acc1 EXCEPT !.failed = "division_by_zero"]
             ELSE acc1

\* state_is_valid_or_enqueue(state): acc carries the solver's fields; trees
\* collects the trees of the states found valid.
\* A variant without the check of tree_hashes_in_queue.
enqueue_without_uniqueness(acc, state, level, enforce) ==
    IF acc.failed # "none" THEN acc
    ELSE IF complete(state) THEN [acc EXCEPT !.trees = Append(@, state.tree)]
    ELSE IF TreeSize(state.tree) > MaxTreeSize THEN [acc EXCEPT !.truncated = TRUE]
    ELSE IF ~NoDanglingArguments(state) THEN [acc EXCEPT !.failed = "dangling"]
    ELSE IF state.constraint = FalseF THEN acc
    ELSE LET new == SolutionState(state.constraint, state.tree, level + 1)
             acc2 == compute_cost(acc, new)
         IN  IF acc2.failed # "none" THEN acc2 ELSE [acc2 EXCEPT
                !.queue = Append(@, [cost |-> StateCost(new), state |-> new]),
                !.hashes = @ \cup {structural_hash(new.tree)},
                !.enqueued = @ + 1]

\* A variant that pushes the state with the level it has.
enqueue_with_own_level(acc, state, level, enforce) ==
    IF acc.failed # "none" THEN acc
    ELSE IF complete(state) THEN [acc EXCEPT !.trees = Append(@, state.tree)]
    ELSE IF TreeSize(state.tree) > MaxTreeSize THEN [acc EXCEPT !.truncated = TRUE]
    ELSE IF ~NoDanglingArguments(state) THEN [acc EXCEPT !.failed = "dangling"]
    ELSE IF enforce /\ structural_hash(state.tree) \in acc.hashes THEN acc
    ELSE IF state.constraint = FalseF THEN acc
    ELSE LET acc2 == compute_cost(acc, state)
         IN  IF acc2.failed # "none" THEN acc2 ELSE [acc2 EXCEPT
                !.queue = Append(@, [cost |-> StateCost(state), state |-> state]),
                !.hashes = @ \cup {structural_hash(state.tree)},
                !.enqueued = @ + 1]

state_is_valid_or_enqueue(acc, state, level, enforce) ==
    IF acc.failed # "none" THEN acc
    ELSE IF complete(state) THEN [acc EXCEPT !.trees = Append(@, state.tree)]
    ELSE IF TreeSize(state.tree) > MaxTreeSize THEN [acc EXCEPT !.truncated = TRUE]
    ELSE IF ~NoDanglingArguments(state) THEN [acc EXCEPT !.failed = "dangling"]
    ELSE IF enforce /\ structural_hash(state.tree) \in acc.hashes THEN acc
    ELSE IF state.constraint = FalseF THEN acc
    ELSE LET new == SolutionState(state.constraint, state.tree, level + 1)
             acc2 == compute_cost(acc, new)
         IN  IF acc2.failed # "none" THEN acc2 ELSE [acc2 EXCEPT
                !.queue = Append(@, [cost |-> StateCost(new), state |-> new]),
                !.hashes = @ \cup {structural_hash(new.tree)},
                !.enqueued = @ + 1]

\* The states process_new_state passes on are noted, until an assertion fails.
Emitted(acc, state) ==
    IF acc.failed # "none" THEN acc ELSE [acc EXCEPT !.emitted = Append(@, state)]

RECURSIVE EnqueueAll(_, _, _, _)
EnqueueAll(acc, states, level, enforce) ==
    IF states = <<>> THEN acc
    ELSE EnqueueAll(state_is_valid_or_enqueue(Emitted(acc, Head(states)), Head(states),
                                              level, enforce),
                    Tail(states), level, enforce)

\* process_new_state(new_state).
process_new_state(acc, new_state, level, enforce) ==
    LET s1 == instantiate_structural_predicates(new_state)
        s2 == establish_invariant(s1)
        s3 == [i \in 1..Len(s2) |-> remove_nonmatching_universal_quantifiers(s2[i])]
        s4 == [i \in 1..Len(s3) |-> remove_infeasible_universal_quantifiers(s3[i])]
    IN  EnqueueAll(acc, s4, level, enforce)

\* process_new_states(new_states): process_new_state for each of them
\* (1009).
RECURSIVE ProcessEach(_, _, _, _)
ProcessEach(acc, new_states, level, enforce) ==
    IF new_states = <<>> THEN acc
    ELSE ProcessEach(process_new_state(acc, Head(new_states), level, enforce),
                     Tail(new_states), level, enforce)

\* The k-paths of the trees of the new states (1011-1012).
NewKPaths(new_states) ==
    UNION {tree_k_paths(new_states[i].tree, cost_settings_k) : i \in 1..Len(new_states)}

\* A variant that keeps the covered k-paths when all are covered.
process_new_states_without_reset(acc, new_states, level, enforce) ==
    LET acc1 == ProcessEach(acc, new_states, level, enforce)
    IN  IF acc1.failed # "none" THEN acc1
        ELSE [acc1 EXCEPT !.covered = @ \cup NewKPaths(new_states)]

\* process_new_states(new_states) (1008-1022): the covered k-paths grow by
\* those of the new trees and are reset once all are covered.
process_new_states(acc, new_states, level, enforce) ==
    LET acc1 == ProcessEach(acc, new_states, level, enforce)
        covered == acc1.covered \cup NewKPaths(new_states)
    IN  IF acc1.failed # "none" THEN acc1
        ELSE [acc1 EXCEPT !.covered = IF covered = graph_k_paths(cost_settings_k)
                                      THEN {} ELSE covered]

\* -------------------------------------------------------------- __init__
\* ISLaSolver.__init__ (265-275): the initial states are the disjuncts of the
\* formula over the open start tree; all of them are pushed.
InitialTree == OpenNode("<start>", 0)

InitialStates(f) ==
    establish_invariant(SolutionState(
        substitute_expressions(f, [v \in {"start"} |-> InitialTree], EmptyMap),
        InitialTree, 0))

RECURSIVE PushInitial(_, _)
PushInitial(acc, states) ==
    IF states = <<>> \/ acc.failed # "none" THEN acc
    ELSE LET acc2 == compute_cost(acc, Head(states))
         IN  IF acc2.failed # "none" THEN acc2 ELSE PushInitial(
                [acc2 EXCEPT !.queue = Append(@, [cost |-> StateCost(Head(states)),
                                                   state |-> Head(states)]),
                             !.enqueued = @ + 1],
                Tail(states))

Acc(q, h, ph, since, enqueued) ==
    [queue |-> q, hashes |-> h, phase |-> ph, since |-> since, enqueued |-> enqueued,
     trees |-> <<>>, emitted |-> <<>>,
     truncated |-> FALSE, failed |-> "none", covered |-> covered_k_paths]

\* The variables a formula has free: its constants.
RECURSIVE FreeVariables(_)
FreeVariables(f) ==
    CASE f.kind \in {"true", "false"} -> {}
      [] f.kind = "smt" -> f.free
      [] f.kind \in {"pred", "sempred"} ->
            {f.args[i].var : i \in {k \in 1..Len(f.args) : IsVar(f.args[k])}}
      [] f.kind = "intro" -> FreeVariables(f.body) \ {f.bv}
      [] f.kind \in {"and", "or"} -> FreeVariables(f.l) \cup FreeVariables(f.r)
      [] f.kind \in {"forall", "exists"} ->
            (FreeVariables(f.body) \ {f.bv}) \cup (IF IsVar(f.in) THEN {f.in.var} ELSE {})

\* top_constants (223-227); the constructor asserts that there is exactly
\* one (228).
top_constants(f) == FreeVariables(f)

NoCall == [states |-> <<>>, used |-> 0, ok |-> TRUE]

\* No predicate was called.
NoPredicateCall ==
    /\ path_1 = <<>>
    /\ path_2 = <<>>
    /\ in_tree = NoState.tree
    /\ needle = "<start>"
    /\ num = 0
    /\ evaluation_result = [kind |-> "none"]

\* The fields the constructor sets (214-217), and no call of parse yet.
Constructed ==
    /\ grammar = ListGrammar
    /\ symbol_cost_result = symbol_costs
    /\ nonterminal = "<start>"
    /\ input = <<>>
    /\ outcome = "none"
    /\ parsed = NoState.tree
    /\ successors = <<>>
    /\ covered_k_paths = {}
    /\ NoPredicateCall

\* The values of max_number_tree_insertion_results (186: the default is 5).
\* The parameter is read by tree insertion alone, so it is varied for the
\* formulas with an existential quantifier only.
TreeInsertionResults(f) == IF Collect(f, "exists") # <<>> THEN {1, 5} ELSE {5}

Init ==
    /\ Constructed
    /\ formula \in Formulas
    /\ quantifier_chains = universal_chains(formula)
    /\ enforce_unique_trees_in_queue \in BOOLEAN
    /\ max_number_free_instantiations \in {1, 2}
    /\ max_number_smt_instantiations \in {1, 2}
    /\ max_number_tree_insertion_results \in TreeInsertionResults(formula)
    /\ timeout_seconds \in {NoTimeout, 0}
    /\ LET acc == PushInitial(Acc(<<>>, {structural_hash(InitialTree)}, 0, 0, 0),
                              InitialStates(formula))
       IN  IF Cardinality(top_constants(formula)) = 1
           THEN /\ queue = acc.queue
                /\ tree_hashes_in_queue = acc.hashes
                /\ current_cost_phase = acc.phase
                /\ current_cost_phase_since = acc.since
                /\ enqueued_in_phase = acc.enqueued
                /\ pc = (IF acc.failed = "none" THEN "loop" ELSE "failed")
                /\ failed = acc.failed
           ELSE /\ queue = <<>>
                /\ tree_hashes_in_queue = {}
                /\ current_cost_phase = 0
                /\ current_cost_phase_since = 0
                /\ enqueued_in_phase = 0
                /\ pc = "failed"
                /\ failed = "top_constants"
    /\ current_level = 0
    /\ current_state = NoState
    /\ current_cost = 0
    /\ applied_rule = "none"
    /\ next_id = 1
    /\ smt_state = NoState
    /\ smt_formulas = <<>>
    /\ solutions = <<>>
    /\ results = NoCall
    /\ pending = <<>>
    /\ ret = "loop"
    /\ fuzz_state = NoState
    /\ fuzz_left = 0
    /\ yielded = <<>>
    /\ elapsed = 0
    /\ truncated = FALSE


\* ------------------------------------------------------------------ solve
\* The check at the top of the loop (295-297).
TimedOut == timeout_seconds # NoTimeout /\ elapsed > timeout_seconds

\* A variant that takes any entry of the queue.
AnyEntries == 1..Len(queue)

\* heapq.heappop: an entry of least cost (among equal costs the heap
\* compares the states' hashes: any of them).
MinEntries == {i \in 1..Len(queue) : \A j \in 1..Len(queue) : queue[i].cost <= queue[j].cost}

RemoveAt(q, i) == SubSeq(q, 1, i - 1) \o SubSeq(q, i + 1, Len(q))

\* A variant of the loop head that does not look at the clock.
CanPopAnyTime == pc = "loop" /\ queue # <<>>

\* The loop goes on with a pop: the queue is not empty and the timeout has
\* not expired (294-297).
CanPop == pc = "loop" /\ queue # <<>> /\ ~TimedOut

\* The solver's fields after the pop of entry i (310-312).
AfterPop(i) ==
    Acc(RemoveAt(queue, i),
        tree_hashes_in_queue \ {structural_hash(queue[i].state.tree)},
        current_cost_phase, current_cost_phase_since, enqueued_in_phase)

\* The state the rules see: after instantiate_structural_predicates (323).
Popped(i) == instantiate_structural_predicates(queue[i].state)

\* cost, state = heapq.heappop(self.queue) (310), and the rule that the
\* iteration goes on to apply.
Pop(i, rule) ==
    /\ current_state' = queue[i].state
    /\ current_cost' = queue[i].cost
    /\ applied_rule' = rule

HasUniversal(state) == SelectKind(get_conjuncts(state.constraint), "forall") # <<>>

\* The solver's fields after an iteration that ended with the fields acc;
\* the trees found valid are yielded before solve() goes on at `back`.
Continue(acc, level, used, back) ==
    /\ queue' = acc.queue
    /\ tree_hashes_in_queue' = acc.hashes
    /\ current_cost_phase' = acc.phase
    /\ current_cost_phase_since' = acc.since
    /\ enqueued_in_phase' = acc.enqueued
    /\ current_level' = level
    /\ next_id' = next_id + used
    /\ truncated' = (truncated \/ acc.truncated)
    /\ failed' = acc.failed
    /\ successors' = acc.emitted
    /\ covered_k_paths' = acc.covered
    /\ pending' = (IF acc.failed = "none" THEN acc.trees ELSE <<>>)
    /\ ret' = back
    /\ pc' = IF acc.failed # "none" THEN "failed"
             ELSE IF acc.trees # <<>> THEN "yield" ELSE back
    /\ UNCHANGED <<config, interface, call, yielded, elapsed>>

\* The popped state leaves the loop before any rule: the assertion that
\* its constraint is no disjunction fails (320), or the constraint is false
\* once the structural predicates are instantiated and the state is
\* dropped (325-326).
DiscardFalse ==
    \E i \in MinEntries :
        /\ CanPop
        /\ IsDisjunctive(queue[i].state.constraint) \/ Popped(i).constraint = FalseF
        /\ Pop(i, "none")
        /\ Continue(IF IsDisjunctive(queue[i].state.constraint)
                    THEN [AfterPop(i) EXCEPT !.failed = "disjunctive"]
                    ELSE AfterPop(i),
                    queue[i].state.level, 0, "loop")
        /\ UNCHANGED <<fuzz_state, fuzz_left>>

RuleApplies(i) ==
    /\ CanPop
    /\ ~IsDisjunctive(queue[i].state.constraint)
    /\ Popped(i).constraint # FalseF

\* Match all universal formulas (334-338).
MatchUniversal ==
    \E i \in MinEntries :
        /\ RuleApplies(i)
        /\ match_all_universal_formulas(Popped(i)) # <<>>
        /\ Pop(i, "match_all_universal_formulas")
        /\ Continue(process_new_states(AfterPop(i), match_all_universal_formulas(Popped(i)),
                                       queue[i].state.level, enforce_unique_trees_in_queue),
                    queue[i].state.level, 0, "loop")
        /\ UNCHANGED <<fuzz_state, fuzz_left>>

\* Expand if a universal quantifier is left (340-347).
Expand ==
    \E i \in MinEntries :
        /\ RuleApplies(i)
        /\ match_all_universal_formulas(Popped(i)) = <<>>
        /\ HasUniversal(Popped(i))
        /\ Pop(i, "expand_tree")
        /\ LET expanded_states == expand_tree(Popped(i), next_id)
           IN  IF expanded_states = <<>>
               THEN Continue([AfterPop(i) EXCEPT !.failed = "never_leaves_queue"],
                             queue[i].state.level, 0, "loop")
               ELSE Continue(process_new_states(AfterPop(i), expanded_states,
                                    queue[i].state.level, enforce_unique_trees_in_queue),
                             queue[i].state.level, ExpandIds(Popped(i)), "loop")
        /\ UNCHANGED <<fuzz_state, fuzz_left>>

\* A variant that goes on to the later rules with a universal formula left.
NoUniversalMatch(i) ==
    /\ RuleApplies(i)
    /\ match_all_universal_formulas(Popped(i)) = <<>>

NoUniversalRule(i) ==
    /\ RuleApplies(i)
    /\ match_all_universal_formulas(Popped(i)) = <<>>
    /\ ~HasUniversal(Popped(i))

\* Eliminate all semantic formulas (349-353).
EliminateSemantic ==
    \E i \in MinEntries :
        /\ NoUniversalRule(i)
        /\ SemanticFormulas(Popped(i)) # <<>>
        /\ Pop(i, "eliminate_all_semantic_formulas")
        /\ \E r \in eliminate_all_semantic_formulas(
                        Popped(i), max_number_smt_instantiations, next_id) :
              Continue(IF r.ok
                       THEN process_new_states(AfterPop(i), r.states,
                                queue[i].state.level, enforce_unique_trees_in_queue)
                       ELSE [AfterPop(i) EXCEPT !.failed = "smt_assertion"],
                       queue[i].state.level, r.used, "loop")
        /\ UNCHANGED <<fuzz_state, fuzz_left>>

\* solve() after a rule with the result r: its states go through
\* process_new_states, or an assertion of the rule has failed.
AfterRule(i, r, assertion) ==
    Continue(IF r.ok
             THEN process_new_states(AfterPop(i), r.states,
                      queue[i].state.level, enforce_unique_trees_in_queue)
             ELSE [AfterPop(i) EXCEPT !.failed = assertion],
             queue[i].state.level, r.used, "loop")

\* Eliminate the first existential formula (361-365): the existential
\* conjuncts are matched and, unless a matched state is complete or has the
\* constraint true, a tree is inserted for the first of them.
EliminateExistential ==
    \E i \in MinEntries :
        /\ NoUniversalRule(i)
        /\ SemanticFormulas(Popped(i)) = <<>>
        /\ ExistentialFormulas(Popped(i)) # <<>>
        /\ Pop(i, "eliminate_first_match_all_existential_formulas")
        /\ AfterRule(i, eliminate_first_match_all_existential_formulas(
                            Popped(i), formula, next_id, max_number_tree_insertion_results),
                     "dangling_subtrees")
        /\ UNCHANGED <<fuzz_state, fuzz_left>>

\* No rule applies: the constraint is true and the open leaves are completed
\* freely (385-392).  The loop over max_number_free_instantiations starts.
StartFuzz ==
    \E i \in MinEntries :
        /\ NoUniversalRule(i)
        /\ SemanticFormulas(Popped(i)) = <<>>
        /\ ExistentialFormulas(Popped(i)) = <<>>
        /\ Pop(i, "free_instantiation")
        /\ IF Popped(i).constraint = TrueF
           THEN /\ Continue(AfterPop(i), queue[i].state.level, 0,
                            IF max_number_free_instantiations > 0 THEN "fuzz" ELSE "loop")
                /\ fuzz_state' = Popped(i)
                /\ fuzz_left' = max_number_free_instantiations
           ELSE /\ Continue([AfterPop(i) EXCEPT !.failed = "not_true"],
                            queue[i].state.level, 0, "loop")
                /\ UNCHANGED <<fuzz_state, fuzz_left>>

\* fuzzer.expand_tree((leaf.value, None)): any complete derivation of the
\* leaf's nonterminal, here of at most MaxWordLen symbols.
FuzzerTrees(nt) == Derivs(nt, MaxWordLen)

RECURSIVE ReplaceLeaves(_, _, _, _)
ReplaceLeaves(t, leaves, choice, base) ==
    IF leaves = <<>> THEN t
    ELSE ReplaceLeaves(replace_path(t, Head(leaves), WithIds(choice[Head(leaves)], base)),
                       Tail(leaves), choice, base + StructSize(choice[Head(leaves)]))

\* One iteration of the loop at 387-392: every open leaf is replaced by a
\* tree of the fuzzer and the result goes through process_new_states.
FuzzStep ==
    /\ pc = "fuzz"
    /\ fuzz_left > 0
    /\ LET leaves == open_leaves(fuzz_state.tree)
           all == UNION {FuzzerTrees(get_subtree(fuzz_state.tree, p).value) : p \in leaves}
       IN  \E choice \in [leaves -> all] :
              /\ \A p \in leaves :
                    choice[p] \in FuzzerTrees(get_subtree(fuzz_state.tree, p).value)
              /\ LET result == ReplaceLeaves(fuzz_state.tree, SetToSeq(leaves), choice, next_id)
                     used == SeqSum([k \in 1..Len(SetToSeq(leaves)) |->
                                        StructSize(choice[SetToSeq(leaves)[k]])])
                 IN  Continue(process_new_states(
                                 Acc(queue, tree_hashes_in_queue, current_cost_phase,
                                     current_cost_phase_since, enqueued_in_phase),
                                 <<SolutionState(fuzz_state.constraint, result, 0)>>,
                                 current_level, enforce_unique_trees_in_queue),
                              current_level, used,
                              IF fuzz_left = 1 THEN "loop" ELSE "fuzz")
    /\ fuzz_left' = fuzz_left - 1
    /\ UNCHANGED <<fuzz_state, iteration>>

\* A tree is handed to the caller; solve() is suspended here until the
\* caller asks for the next one.
Yield ==
    /\ pc = "yield"
    /\ yielded' = Append(yielded, structural_hash(Head(pending)))
    /\ pending' = Tail(pending)
    /\ pc' = IF Tail(pending) = <<>> THEN ret ELSE "yield"
    /\ UNCHANGED <<config, interface, successors, covered_k_paths, call, iteration, queue, tree_hashes_in_queue, current_level,
                   current_cost_phase, current_cost_phase_since,
                   enqueued_in_phase, next_id, ret, fuzz_state,
                   fuzz_left, elapsed, truncated, failed>>

\* The timeout has expired at the top of the loop: return (295-297).
Timeout ==
    /\ pc = "loop" /\ queue # <<>> /\ TimedOut
    /\ pc' = "done"
    /\ UNCHANGED <<config, interface, successors, covered_k_paths, call, iteration, queue, tree_hashes_in_queue, current_level,
                   current_cost_phase, current_cost_phase_since,
                   enqueued_in_phase, next_id, pending, ret,
                   fuzz_state, fuzz_left, yielded, elapsed, truncated, failed>>

\* while self.queue: the queue is empty, solve() ends (294).
Exhausted ==
    /\ pc = "loop" /\ queue = <<>>
    /\ pc' = "done"
    /\ UNCHANGED <<config, interface, successors, covered_k_paths, call, iteration, queue, tree_hashes_in_queue, current_level,
                   current_cost_phase, current_cost_phase_since,
                   enqueued_in_phase, next_id, pending, ret,
                   fuzz_state, fuzz_left, yielded, elapsed, truncated, failed>>

\* A second of wall time passes, wherever solve() stands; the clock is read
\* only when there is a timeout (295-296).
Tick ==
    /\ pc \notin {"done", "failed"}
    /\ timeout_seconds # NoTimeout
    /\ elapsed < MaxTime
    /\ elapsed' = elapsed + 1
    /\ UNCHANGED <<config, interface, successors, covered_k_paths, call, iteration, queue, tree_hashes_in_queue, current_level,
                   current_cost_phase, current_cost_phase_since,
                   enqueued_in_phase, next_id, pc, pending, ret,
                   fuzz_state, fuzz_left, yielded, truncated, failed>>

Next ==
    \/ DiscardFalse
    \/ MatchUniversal
    \/ Expand
    \/ EliminateSemantic
    \/ EliminateExistential
    \/ StartFuzz
    \/ FuzzStep
    \/ Yield
    \/ Timeout
    \/ Exhausted
    \/ Tick

Spec == Init /\ [][Next]_vars

\* ------------------------------------------- the SMT elimination, by itself
\* A state as universal matching leaves it: three nodes of the tree are bound
\* by SMT atoms; x and y stand for the <var> nodes, z for the open <list>.
SmtTree ==
    Node("<start>", 0, <<
        Node("<list>", 1, <<
            OpenNode("<var>", 2),
            Node("<list>", 3, << OpenNode("<var>", 4), OpenNode("<list>", 5) >>) >>) >>)

NodeOf(v) ==
    find_node(SmtTree, CASE v = "x" -> 2 [] v = "y" -> 4 [] v = "z" -> 5
                         [] v = "u" -> 3 [] v = "w" -> 1)

BoundAtom(op, v, w) ==
    SMT(op, VarArg(v), StrArg(w), {}, [u \in {v} |-> get_subtree(SmtTree, NodeOf(v))])

BoundPair(op, v, w) ==
    SMT(op, VarArg(v), VarArg(w), {}, [u \in {v, w} |-> get_subtree(SmtTree, NodeOf(u))])

SmtAtoms ==
    { BoundAtom("eq", "x", <<"a">>), BoundAtom("ne", "x", <<"a">>),
      BoundAtom("eq", "x", <<"a", "a">>),
      BoundAtom("ne", "y", <<"a", "a">>), BoundAtom("eq", "y", <<"b">>),
      BoundAtom("ne", "z", <<"a">>), BoundAtom("eq", "z", <<"c">>),
      BoundPair("ne", "x", "z") }

MaxAtoms == 3

SmtStates ==
    { SolutionState(AndAll(SetToSeq(as)), SmtTree, 0) :
        as \in {S \in SUBSET SmtAtoms : S # {} /\ Cardinality(S) <= MaxAtoms} }

\* The clusters eliminate_semantic_formula forms for a state (815-829).
ClustersOf(state) ==
    cluster_by_common_elements(
        rename_instantiated_variables_in_smt_formulas(SemanticFormulas(state)))

SmtInit ==
    /\ Constructed
    /\ smt_state \in SmtStates
    /\ max_number_smt_instantiations \in {1, 2}
    /\ smt_formulas = <<>>
    /\ solutions = <<>>
    /\ results = NoCall
    /\ pc = "call"
    /\ next_id = 6
    /\ formula = TrueF
    /\ quantifier_chains = universal_chains(formula)
    /\ enforce_unique_trees_in_queue = TRUE
    /\ max_number_free_instantiations = 1
    /\ max_number_tree_insertion_results = 5
    /\ timeout_seconds = NoTimeout
    /\ current_state = NoState
    /\ current_cost = 0
    /\ applied_rule = "none"
    /\ queue = <<>>
    /\ tree_hashes_in_queue = {}
    /\ current_level = 0
    /\ current_cost_phase = 0
    /\ current_cost_phase_since = 0
    /\ enqueued_in_phase = 0
    /\ pending = <<>>
    /\ ret = "loop"
    /\ fuzz_state = NoState
    /\ fuzz_left = 0
    /\ yielded = <<>>
    /\ elapsed = 0
    /\ truncated = FALSE
    /\ failed = "none"

solver == <<formula, enforce_unique_trees_in_queue, max_number_free_instantiations,
            max_number_smt_instantiations, max_number_tree_insertion_results,
            timeout_seconds, queue, tree_hashes_in_queue, current_state, current_cost,
            applied_rule, current_level, current_cost_phase, current_cost_phase_since,
                   enqueued_in_phase, next_id,
            pending, ret, fuzz_state, fuzz_left, yielded, elapsed, truncated, failed,
            covered_k_paths>>

\* solve_quantifier_free_formula is called on one cluster of the state; the
\* call ends at the assertion of 901 when that fails.
SolveCluster ==
    /\ pc = "call"
    /\ \E k \in 1..Len(ClustersOf(smt_state)) :
          /\ smt_formulas' = ClustersOf(smt_state)[k]
          /\ IF ConflictAssertion(ClustersOf(smt_state)[k])
             THEN /\ solutions' \in solve_quantifier_free_formula(
                          ClustersOf(smt_state)[k], max_number_smt_instantiations, next_id)
                  /\ pc' = "solved"
             ELSE /\ solutions' = <<>>
                  /\ pc' = "asserted"
    /\ UNCHANGED <<solver, interface, successors, smt_state, results>>

\* eliminate_all_semantic_formulas is called on the state.
EliminateAll ==
    /\ pc = "call"
    /\ results' \in eliminate_all_semantic_formulas(
                        smt_state, max_number_smt_instantiations, next_id)
    /\ pc' = "eliminated"
    /\ UNCHANGED <<solver, interface, successors, smt_state, smt_formulas, solutions>>

SmtNext == SolveCluster \/ EliminateAll

SmtSpec == SmtInit /\ [][SmtNext]_vars

\* ------------------------- the SMT elimination of trees inside one another
\* Atoms as universal matching over <list> and <var> leaves them: u stands
\* for the inner <list> node, which has the nodes of y and z as children,
\* and w for the outer <list> node, which has the node of u as a child.
NestedAtoms ==
    { BoundAtom("eq", "w", <<"a", "a", "b">>),
      BoundAtom("eq", "u", <<"a", "b">>), BoundAtom("eq", "u", <<"b", "a", "b">>),
      BoundAtom("eq", "y", <<"b">>),
      BoundAtom("ne", "x", <<"a">>),
      BoundAtom("ne", "z", <<"a">>) }

NestedStates ==
    { SolutionState(AndAll(SetToSeq(as)), SmtTree, 0) :
        as \in {S \in SUBSET NestedAtoms : S # {} /\ Cardinality(S) <= MaxAtoms} }

NestedInit ==
    /\ Constructed
    /\ smt_state \in NestedStates
    /\ max_number_smt_instantiations \in {1, 2}
    /\ smt_formulas = <<>>
    /\ solutions = <<>>
    /\ results = NoCall
    /\ pc = "call"
    /\ next_id = 6
    /\ formula = TrueF
    /\ quantifier_chains = universal_chains(formula)
    /\ enforce_unique_trees_in_queue = TRUE
    /\ max_number_free_instantiations = 1
    /\ max_number_tree_insertion_results = 5
    /\ timeout_seconds = NoTimeout
    /\ current_state = NoState
    /\ current_cost = 0
    /\ applied_rule = "none"
    /\ queue = <<>>
    /\ tree_hashes_in_queue = {}
    /\ current_level = 0
    /\ current_cost_phase = 0
    /\ current_cost_phase_since = 0
    /\ enqueued_in_phase = 0
    /\ pending = <<>>
    /\ ret = "loop"
    /\ fuzz_state = NoState
    /\ fuzz_left = 0
    /\ yielded = <<>>
    /\ elapsed = 0
    /\ truncated = FALSE
    /\ failed = "none"

NestedSpec == NestedInit /\ [][SmtNext]_vars

\* ---------------------------------------- the tree insertion, by itself
\* The trees an existential formula is eliminated in: open trees as
\* expansion and earlier insertions leave them.
HostTrees ==
    { OpenNode("<start>", 0),
      Node("<start>", 0, << OpenNode("<list>", 1) >>),
      Node("<start>", 0, << Node("<list>", 1, << OpenNode("<var>", 2) >>) >>),
      Node("<start>", 0, << Node("<list>", 1, << OpenNode("<var>", 2),
                                                  OpenNode("<list>", 3) >>) >>),
      Node("<start>", 0, << Node("<list>", 1, <<
          Node("<var>", 2, << Node("a", 3, <<>>) >>), OpenNode("<list>", 4) >>) >>),
      Node("<start>", 0, << Node("<list>", 1, <<
          OpenNode("<var>", 2),
          Node("<list>", 3, << OpenNode("<var>", 4), OpenNode("<list>", 5) >>) >>) >>),
      Node("<start>", 0, << Node("<list>", 1, <<
          Node("<var>", 2, << Node("b", 3, <<>>) >>),
          Node("<list>", 4, << OpenNode("<var>", 5), OpenNode("<list>", 6) >>) >>) >>) }

\* to_tree_prefix for the match expression "{<var> x}[<list>]" of a <list>:
\* the optional element is left out or taken.
ListPrefixes ==
    << [tree |-> [value |-> "<list>", open |-> FALSE, children |->
                    << [value |-> "<var>", open |-> TRUE, children |-> <<>>] >>],
        paths |-> [v \in {"x"} |-> <<1>>]],
       [tree |-> [value |-> "<list>", open |-> FALSE, children |->
                    << [value |-> "<var>", open |-> TRUE, children |-> <<>>],
                       [value |-> "<list>", open |-> TRUE, children |-> <<>>] >>],
        paths |-> [v \in {"x"} |-> <<1>>]] >>

\* An existential formula with a match expression.
ExistsMatch(bv, ntype, in, body, prefixes) ==
    [kind |-> "exists", bv |-> bv, ntype |-> ntype, in |-> in, body |-> body,
     bind_expression |-> prefixes]

InsertFormulas ==
    { ExistsVar("v", VarEq("v", <<"a">>)),
      Exists("l", "<list>", VarArg("start"), VarNe("l", <<"a">>)),
      ExistsMatch("l", "<list>", VarArg("start"), VarEq("x", <<"a">>), ListPrefixes) }

InsertInit ==
    /\ Constructed
    /\ formula \in InsertFormulas
    /\ quantifier_chains = universal_chains(formula)
    /\ max_number_tree_insertion_results \in {1, 2, 5}
    /\ \E tree \in HostTrees :
          current_state = SolutionState(
              substitute_expressions(formula, [v \in {"start"} |-> tree], EmptyMap),
              tree, 0)
    /\ results = NoCall
    /\ pc = "insert"
    /\ next_id = 10
    /\ smt_state = NoState
    /\ smt_formulas = <<>>
    /\ solutions = <<>>
    /\ enforce_unique_trees_in_queue = TRUE
    /\ max_number_free_instantiations = 1
    /\ max_number_smt_instantiations = 1
    /\ timeout_seconds = NoTimeout
    /\ current_cost = 0
    /\ applied_rule = "none"
    /\ queue = <<>>
    /\ tree_hashes_in_queue = {}
    /\ current_level = 0
    /\ current_cost_phase = 0
    /\ current_cost_phase_since = 0
    /\ enqueued_in_phase = 0
    /\ pending = <<>>
    /\ ret = "loop"
    /\ fuzz_state = NoState
    /\ fuzz_left = 0
    /\ yielded = <<>>
    /\ elapsed = 0
    /\ truncated = FALSE
    /\ failed = "none"

\* eliminate_existential_formula is called on the state for its existential
\* formula.
InsertTree ==
    /\ pc = "insert"
    /\ results' = eliminate_existential_formula(
                      ExistentialFormulas(current_state)[1], current_state, formula,
                      next_id, max_number_tree_insertion_results)
    /\ pc' = "inserted"
    /\ UNCHANGED <<config, interface, successors, covered_k_paths, iteration, queue, tree_hashes_in_queue, current_level,
                   current_cost_phase, current_cost_phase_since,
                   enqueued_in_phase, next_id, pending, ret,
                   fuzz_state, fuzz_left, yielded, elapsed, truncated, failed,
                   smt_state, smt_formulas, solutions>>

InsertNext == InsertTree

InsertSpec == InsertInit /\ [][InsertNext]_vars

\* ------------------------------------------- the cost phases, by themselves
\* The queue as pushes and pops in any order make it: the states pushed
\* are an open state with a constraint (its cost is computed in the current
\* phase) and an open state with the constraint true (its cost is 0).
MaxQueue == 8
MaxEnqueued == 6

PhaseStates ==
    { InitialStates(ForallVar("v", VarEq("v", <<"a">>)))[1],
      SolutionState(TrueF, InitialTree, 0) }

PhaseInit ==
    /\ Constructed
    /\ queue = <<>>
    /\ tree_hashes_in_queue = {}
    /\ current_cost_phase = 0
    /\ current_cost_phase_since = 0
    /\ enqueued_in_phase = 0
    /\ pc = "queue"
    /\ formula = ForallVar("v", VarEq("v", <<"a">>))
    /\ quantifier_chains = universal_chains(formula)
    /\ enforce_unique_trees_in_queue = FALSE
    /\ max_number_free_instantiations = 1
    /\ max_number_smt_instantiations = 1
    /\ max_number_tree_insertion_results = 5
    /\ timeout_seconds = NoTimeout
    /\ current_state = NoState
    /\ current_cost = 0
    /\ applied_rule = "none"
    /\ current_level = 0
    /\ next_id = 1
    /\ smt_state = NoState
    /\ smt_formulas = <<>>
    /\ solutions = <<>>
    /\ results = NoCall
    /\ pending = <<>>
    /\ ret = "loop"
    /\ fuzz_state = NoState
    /\ fuzz_left = 0
    /\ yielded = <<>>
    /\ elapsed = 0
    /\ truncated = FALSE
    /\ failed = "none"

\* The solver's fields that pushes and pops leave alone.
rest == <<config, interface, successors, iteration, call, current_level, next_id, pc, pending, ret, fuzz_state,
          fuzz_left, yielded, elapsed, truncated, failed, covered_k_paths>>

Enqueued(acc) ==
    /\ queue' = acc.queue
    /\ tree_hashes_in_queue' = acc.hashes
    /\ current_cost_phase' = acc.phase
    /\ current_cost_phase_since' = acc.since
    /\ enqueued_in_phase' = acc.enqueued

\* state_is_valid_or_enqueue is called on a state.
Push ==
    /\ pc = "queue"
    /\ Len(queue) < MaxQueue
    /\ enqueued_in_phase < MaxEnqueued
    /\ \E state \in PhaseStates :
          Enqueued(state_is_valid_or_enqueue(
                       Acc(queue, tree_hashes_in_queue, current_cost_phase,
                           current_cost_phase_since, enqueued_in_phase),
                       state, current_level, enforce_unique_trees_in_queue))
    /\ UNCHANGED rest

\* heapq.heappop(self.queue) (310-312).
PopOnly ==
    /\ pc = "queue"
    /\ queue # <<>>
    /\ \E i \in MinEntries : Enqueued(AfterPop(i))
    /\ UNCHANGED rest

PhaseNext == Push \/ PopOnly

PhaseSpec == PhaseInit /\ [][PhaseNext]_vars

\* ------------------------------------- the calls besides solve(), by themselves
\* The variables solve() works on.
engine == <<config, iteration, call, successors, queue, tree_hashes_in_queue, current_level,
            current_cost_phase, current_cost_phase_since, enqueued_in_phase, next_id,
            pending, ret, fuzz_state, fuzz_left, yielded, elapsed, truncated, failed,
            covered_k_paths>>

\* A solver solve() was not called on, its queue left aside.
Unstarted ==
    /\ enforce_unique_trees_in_queue = TRUE
    /\ max_number_free_instantiations = 1
    /\ max_number_smt_instantiations = 1
    /\ max_number_tree_insertion_results = 5
    /\ timeout_seconds = NoTimeout
    /\ current_state = NoState
    /\ current_cost = 0
    /\ applied_rule = "none"
    /\ smt_state = NoState
    /\ smt_formulas = <<>>
    /\ solutions = <<>>
    /\ results = NoCall
    /\ queue = <<>>
    /\ tree_hashes_in_queue = {}
    /\ current_level = 0
    /\ current_cost_phase = 0
    /\ current_cost_phase_since = 0
    /\ enqueued_in_phase = 0
    /\ next_id = 1
    /\ pending = <<>>
    /\ ret = "loop"
    /\ fuzz_state = NoState
    /\ fuzz_left = 0
    /\ yielded = <<>>
    /\ elapsed = 0
    /\ truncated = FALSE
    /\ failed = "none"
    /\ successors = <<>>
    /\ covered_k_paths = {}
    /\ NoPredicateCall

\* Grammars over three nonterminals besides the start symbol: without and
\* with recursion, and with several ways to a nonterminal.
StartRules ==
    { << <<"<B>", "<B>">>, <<"<B>", "<C>">> >>,
      << <<"<A>">>, <<"<B>">>, <<"<C>">> >>,
      << <<"<A>", "<C>">>, <<"<B>">> >>,
      << <<"<C>">>, <<"<B>", "<A>">> >> }

ARules ==
    { << <<"x">> >>,
      << <<"x">>, <<"x", "<A>">> >>,
      << <<"<B>">>, <<"x">> >> }

BRules ==
    { << <<"<A>", "x">>, <<"<A>", "<A>">> >>,
      << <<"x">> >>,
      << <<"<A>">>, <<"x">> >> }

CRules ==
    { << <<"<B>", "<B>">>, <<"x">> >>,
      << <<"x">> >>,
      << <<"<A>">> >> }

\* The nonterminals of the alternatives of a nonterminal.
ChildSymbols(g, n) ==
    UNION {SeqRange(NonterminalsOf(g, g.rules[n][i])) : i \in 1..Len(g.rules[n])}

RECURSIVE CycleFreePaths(_, _)
\* The paths without a cycle that begin with p.
CycleFreePaths(g, p) ==
    {p} \cup UNION {CycleFreePaths(g, Append(p, c)) :
                       c \in ChildSymbols(g, p[Len(p)]) \ SeqRange(p)}

\* Every nonterminal derives a word and is reached from the start symbol.
WellFormed(g) ==
    /\ \A n \in DOMAIN g.rules : symbol_cost(g, n, {}) < Infinite
    /\ \A n \in DOMAIN g.rules : \E p \in CycleFreePaths(g, <<"<start>">>) : p[Len(p)] = n

Grammars ==
    {g \in {Grammar(<<"<start>", "<A>", "<B>", "<C>">>,
                    ("<start>" :> s) @@ ("<A>" :> a) @@ ("<B>" :> b) @@ ("<C>" :> c)) :
                s \in StartRules, a \in ARules, b \in BRules, c \in CRules} :
        WellFormed(g)} \cup {ListGrammar}

NoCosts == <<>>

SymbolCostInit ==
    /\ Unstarted
    /\ formula = TrueF
    /\ quantifier_chains = universal_chains(formula)
    /\ grammar \in Grammars
    /\ symbol_cost_result = NoCosts
    /\ nonterminal = "<start>"
    /\ input = <<>>
    /\ outcome = "none"
    /\ parsed = NoState.tree
    /\ pc = "costs"

\* The constructor calls compute_symbol_costs (217).
ComputeSymbolCosts ==
    /\ pc = "costs"
    /\ symbol_cost_result' \in compute_symbol_costs(grammar)
    /\ pc' = "computed"
    /\ UNCHANGED <<engine, quantifier_chains, predicates, grammar, nonterminal, input, outcome, parsed>>

SymbolCostNext == ComputeSymbolCosts

SymbolCostSpec == SymbolCostInit /\ [][SymbolCostNext]_vars

\* The top constant stands for the whole tree.
TopConstantEnv == [v \in {"start"} |-> <<>>]

\* ----------------------------------------------------- parse and check
MaxInputLen == 3

\* The words parse is called on: letters of the grammar and a letter that
\* is not of the grammar.
RECURSIVE InputsOfLen(_)
InputsOfLen(n) ==
    IF n = 0 THEN {<<>>}
    ELSE {Append(w, c) : w \in InputsOfLen(n - 1), c \in {"a", "b", "c"}}

Inputs == UNION {InputsOfLen(n) : n \in 0..MaxInputLen}

\* The parser has a derivation of the word from the nonterminal; without
\* one it raises a SyntaxError.
Parses(nt, word) == \E d \in Derivs(nt, Len(word)) : StructStr(d) = word

\* A semantic predicate that is never ready to decide (SemPredEvalResult(None)).
NeverReadyFormulas ==
    { SemPred("neverReady", <<VarArg("start")>>),
      ForallVar("v", SemPred("neverReady", <<VarArg("v")>>)),
      And(VarEq("start", <<"a">>), SemPred("neverReady", <<VarArg("start")>>)) }

\* The tree of the whole input, with ids, for a word of the nonterminal.
InputTree(nt, d) ==
    WithIds([value |-> "<start>", open |-> FALSE, children |->
                IF nt = "<list>" THEN <<d>>
                ELSE << [value |-> "<list>", open |-> FALSE, children |-> <<d>>] >>], 1)

\* The result of evaluating the constraint on a tree: unknown with a
\* semantic predicate that does not decide.
evaluate(f, t) ==
    IF Collect(f, "sempred") # <<>> THEN "unknown"
    ELSE IF Evaluate(f, TopConstantEnv, t) THEN "true"
    ELSE "false"

\* A variant that takes an undecided predicate for a violated one.
CheckAsBoolean(f, word) ==
    IF ~Parses("<list>", word) THEN "SyntaxError"
    ELSE IF Collect(f, "sempred") = <<>> /\ Evaluate(f, TopConstantEnv, InputTree("<list>", parse("<list>", word)))
    THEN "True"
    ELSE "False"

\* check(input): the input is parsed and the constraint evaluated on it.
check(f, word) ==
    IF ~Parses("<list>", word) THEN "SyntaxError"
    ELSE IF evaluate(f, InputTree("<list>", parse("<list>", word))) = "unknown"
    THEN "UnknownResultError"
    ELSE IF evaluate(f, InputTree("<list>", parse("<list>", word))) = "true" THEN "True"
    ELSE "False"

ParseInit ==
    /\ Unstarted
    /\ formula \in Formulas \cup NeverReadyFormulas
    /\ quantifier_chains = universal_chains(formula)
    /\ grammar = ListGrammar
    /\ symbol_cost_result = symbol_costs
    /\ nonterminal \in {"<list>", "<var>"}
    /\ input \in Inputs
    /\ outcome = "none"
    /\ parsed = NoState.tree
    /\ pc = "call"

\* parse(nonterminal, input) (1267-1272): the tree of the first derivation,
\* without its ids.
Parse ==
    /\ pc = "call"
    /\ IF Parses(nonterminal, input)
       THEN /\ outcome' = "returned"
            /\ parsed' = parse(nonterminal, input)
       ELSE /\ outcome' = "SyntaxError"
            /\ parsed' = parsed
    /\ pc' = "parsed"
    /\ UNCHANGED <<engine, quantifier_chains, predicates, grammar, symbol_cost_result, nonterminal, input>>

\* check(input).
Check ==
    /\ pc = "call"
    /\ outcome' = check(formula, input)
    /\ pc' = "checked"
    /\ UNCHANGED <<engine, quantifier_chains, predicates, grammar, symbol_cost_result, nonterminal, input, parsed>>

ParseNext == Parse \/ Check

ParseSpec == ParseInit /\ [][ParseNext]_vars

\* ------------------------------------------- the expansion, by itself
\* A grammar whose start symbol has two lists: a tree of it has two open
\* leaves a universal formula over <var> might match.
PairGrammar ==
    Grammar(<<"<start>", "<list>", "<var>">>,
            ("<start>" :> << <<"<list>", "<list>">> >>) @@
            ("<list>"  :> << <<"<var>">>, <<"<var>", "<list>">> >>) @@
            ("<var>"   :> << <<"a">>, <<"b">> >>))

\* The constraints of the model, a universal formula over the lists of the
\* top constant, and one over the lists of a top constant of type <var>.
ExpandFormulas ==
    Formulas \cup {Forall("l", "<list>", VarArg("start"), VarNe("l", <<"a">>), {}),
                   Forall("l", "<list>", VarArg("var"), VarNe("l", <<"a">>), {})}

\* The initial tree (266): an open node of the type of the top constant.
TopConstantTree(f) ==
    IF Cardinality(top_constants(f)) = 1
    THEN OpenNode(VarType(CHOOSE c \in top_constants(f) : TRUE), 0)
    ELSE InitialTree

\* The initial states (267-269).
TopConstantStates(f) ==
    establish_invariant(SolutionState(
        substitute_expressions(f, [v \in top_constants(f) |-> TopConstantTree(f)], EmptyMap),
        TopConstantTree(f), 0))

\* A solver constructed for one of the grammars, solve() entered.
ExpandInit ==
    /\ grammar \in {ListGrammar, PairGrammar}
    /\ symbol_cost_result \in compute_symbol_costs(grammar)
    /\ nonterminal = "<start>"
    /\ input = <<>>
    /\ outcome = "none"
    /\ parsed = NoState.tree
    /\ successors = <<>>
    /\ covered_k_paths = {}
    /\ NoPredicateCall
    /\ formula \in ExpandFormulas
    /\ quantifier_chains = universal_chains(formula)
    /\ enforce_unique_trees_in_queue \in BOOLEAN
    /\ max_number_free_instantiations = 1
    /\ max_number_smt_instantiations \in {1, 2}
    /\ max_number_tree_insertion_results \in TreeInsertionResults(formula)
    /\ timeout_seconds \in {NoTimeout, 0}
    /\ LET acc == PushInitial(Acc(<<>>, {structural_hash(TopConstantTree(formula))}, 0, 0, 0),
                              TopConstantStates(formula))
       IN  IF Cardinality(top_constants(formula)) = 1
           THEN /\ queue = acc.queue
                /\ tree_hashes_in_queue = acc.hashes
                /\ current_cost_phase = acc.phase
                /\ current_cost_phase_since = acc.since
                /\ enqueued_in_phase = acc.enqueued
                /\ pc = (IF acc.failed = "none" THEN "loop" ELSE "failed")
                /\ failed = acc.failed
           ELSE /\ queue = <<>>
                /\ tree_hashes_in_queue = {}
                /\ current_cost_phase = 0
                /\ current_cost_phase_since = 0
                /\ enqueued_in_phase = 0
                /\ pc = "failed"
                /\ failed = "top_constants"
    /\ current_level = 0
    /\ current_state = NoState
    /\ current_cost = 0
    /\ applied_rule = "none"
    /\ next_id = 1
    /\ smt_state = NoState
    /\ smt_formulas = <<>>
    /\ solutions = <<>>
    /\ results = NoCall
    /\ pending = <<>>
    /\ ret = "loop"
    /\ fuzz_state = NoState
    /\ fuzz_left = 0
    /\ yielded = <<>>
    /\ elapsed = 0
    /\ truncated = FALSE

\* solve() for either grammar.
ExpandSpec == ExpandInit /\ [][Next]_vars

\* --------------------------------------------------- semantic predicates
\* SemPredEvalResult: None (not ready), a Boolean, or a substitution map
\* (vm keyed by variables, tm keyed by trees, by their ids).
NotReady == [kind |-> "notready"]
Decided(b) == [kind |-> "bool", value |-> b]
Substitution(vm, tm) == [kind |-> "subst", vm |-> vm, tm |-> tm]

\* len(in_tree.filter(lambda t: t.value == needle)) (52).
num_needles(t, sym) == Cardinality({p \in paths(t) : get_subtree(t, p).value = sym})

\* A variant that does not count the open leaves.
num_closed_needles(t, sym) ==
    Cardinality({p \in paths(t) : get_subtree(t, p).value = sym /\ ~get_subtree(t, p).open})

\* more_needles_possible (54-57): an open leaf reaches the needle in the
\* grammar graph.
more_needles_possible(t, sym) ==
    \E p \in open_leaves(t) : reachable(get_subtree(t, p).value, sym)

\* The results of insert_tree(canonical_grammar, DerivationTree(needle,
\* None), tree) with at most n needles (93-94, 108-112).
NeedleInsertions(t, sym, n, base) ==
    SelectSeq(insert_tree(OpenNode(sym, base), t, base + 1),
              LAMBDA c : num_needles(c, sym) <= n)

Hashes(ts) == {structural_hash(ts[i]) : i \in 1..Len(ts)}

\* A variant of the loop that returns the first candidate as it is.
CandidateFirst(candidates, already_seen, root, sym, n, base) ==
    IF candidates = <<>> THEN Decided(FALSE)
    ELSE Substitution(EmptyMap, [i \in {root} |-> Head(candidates)])

\* The loop over the candidates (96-115): the first candidate with n
\* needles and no way to more of them is returned; one with fewer needles is
\* extended by its insertions that were not seen before.
RECURSIVE CandidateLoop(_, _, _, _, _, _)
CandidateLoop(candidates, already_seen, root, sym, n, base) ==
    IF candidates = <<>> THEN Decided(FALSE)
    ELSE LET candidate == Head(candidates)
         IN  IF ~more_needles_possible(candidate, sym) /\ num_needles(candidate, sym) = n
             THEN Substitution(EmptyMap, [i \in {root} |-> candidate])
             ELSE IF num_needles(candidate, sym) < n
             THEN LET new_candidates ==
                          SelectSeq(NeedleInsertions(candidate, sym, n, base),
                                    LAMBDA c : structural_hash(c) \notin already_seen)
                  IN  CandidateLoop(Tail(candidates) \o new_candidates,
                                    already_seen \cup Hashes(new_candidates),
                                    root, sym, n, MaxId(new_candidates, base) + 1)
             ELSE CandidateLoop(Tail(candidates), already_seen, root, sym, n, base)

\* count(grammar, in_tree, needle, num) (43-118).  num is a constant or the
\* tree of a number.
count(t, sym, n, base) ==
    IF IsVar(n)
    THEN IF more_needles_possible(t, sym) THEN NotReady
         ELSE Substitution([v \in {n.var} |-> OpenNode(ToString(num_needles(t, sym)), base)],
                           EmptyMap)
    ELSE IF num_needles(t, sym) > n.num THEN Decided(FALSE)
    ELSE IF ~more_needles_possible(t, sym) THEN Decided(num_needles(t, sym) = n.num)
    ELSE IF num_needles(t, sym) = n.num THEN NotReady
    ELSE LET candidates == NeedleInsertions(t, sym, n.num, base)
         IN  CandidateLoop(candidates, Hashes(candidates), t.id, sym, n.num,
                           MaxId(candidates, base) + 1)

\* SemanticPredicateFormula.evaluate(grammar): the predicate is called on
\* the arguments.  A predicate other than count does not decide.
PredicateEvaluate(f, base) ==
    IF f.name = "count" THEN count(f.args[1].tree, f.args[2].str, f.args[3], base)
    ELSE NotReady

\* The identities a result has used.
ResultIds(ev, base) ==
    IF ev.kind = "subst"
    THEN MaxId([k \in 1..Cardinality(DOMAIN ev.tm) |-> ev.tm[SetToSeq(DOMAIN ev.tm)[k]]], base) + 1
    ELSE base

\* A variant of the loop below that goes on after a predicate that is false.
RECURSIVE ReadyLoopPastFalse(_, _, _, _, _)
ReadyLoopPastFalse(preds, result, changed, base, evaluations) ==
    IF preds = <<>>
    THEN [state |-> result, changed |-> changed, base |-> base, evaluations |-> evaluations]
    ELSE LET ev == PredicateEvaluate(Head(preds), base)
         IN  IF ev.kind # "bool"
             THEN ReadyLoopPastFalse(Tail(preds), result, changed, base,
                                     Append(evaluations, ev))
             ELSE ReadyLoopPastFalse(Tail(preds),
                     SolutionState(replace_formula(result.constraint, Head(preds), TrueF),
                                   result.tree, 0),
                     TRUE, base, Append(evaluations, ev))

\* The loop of 482-514 over the predicate formulas: one that is not ready
\* is skipped; a false one ends the loop with the constraint false; a true
\* one is replaced by true; a substitution is applied to the constraint,
\* the tree and the predicate formulas still to come.  The results of the
\* evaluations are noted as they come (the solver keeps no such list).
RECURSIVE ReadyLoop(_, _, _, _, _)
ReadyLoop(preds, result, changed, base, evaluations) ==
    IF preds = <<>>
    THEN [state |-> result, changed |-> changed, base |-> base, evaluations |-> evaluations]
    ELSE LET ev == PredicateEvaluate(Head(preds), base)
         IN  IF ev.kind = "notready"
             THEN ReadyLoop(Tail(preds), result, changed, base, Append(evaluations, ev))
             ELSE IF ev.kind = "bool" /\ ~ev.value
             THEN [state |-> SolutionState(FalseF, result.tree, 0), changed |-> TRUE,
                   base |-> base, evaluations |-> Append(evaluations, ev)]
             ELSE IF ev.kind = "bool"
             THEN ReadyLoop(Tail(preds),
                     SolutionState(replace_formula(result.constraint, Head(preds), TrueF),
                                   result.tree, 0),
                     TRUE, base, Append(evaluations, ev))
             ELSE ReadyLoop(
                     [k \in 1..Len(Tail(preds)) |->
                         substitute_expressions(Tail(preds)[k], ev.vm, ev.tm)],
                     SolutionState(
                         substitute_expressions(
                             replace_formula(result.constraint, Head(preds), TrueF),
                             ev.vm, ev.tm),
                         substitute(result.tree, ev.tm), 0),
                     TRUE, ResultIds(ev, base), Append(evaluations, ev))

\* The semantic predicate formulas without a variable among their arguments
\* (468-473); sorted by their order, which is the same for all of them (475).
ReadyCandidates(state) ==
    SelectSeq(Collect(state.constraint, "sempred"),
              LAMBDA f : \A i \in 1..Len(f.args) : ~IsVar(f.args[i]))

\* eliminate_all_ready_semantic_predicate_formulas(state) (467-516): no
\* states stands for None.
eliminate_all_ready_semantic_predicate_formulas(state, base) ==
    LET r == ReadyLoop(ReadyCandidates(state), state, FALSE, base, <<>>)
    IN  [states |-> IF r.changed THEN <<r.state>> ELSE <<>>,
         used |-> r.base - base, ok |-> TRUE, evaluations |-> r.evaluations]

\* ----------------------------------------- numeric constant introduction
\* VariablesCollector.collect: the names of the variables of a formula,
\* bound ones included.
RECURSIVE Variables(_)
Variables(f) ==
    CASE f.kind = "smt" -> f.free \cup DOMAIN f.subst
      [] f.kind \in {"pred", "sempred"} ->
            {f.args[i].var : i \in {k \in 1..Len(f.args) : IsVar(f.args[k])}}
      [] f.kind \in {"forall", "exists"} ->
            {f.bv} \cup (IF IsVar(f.in) THEN {f.in.var} ELSE {}) \cup Variables(f.body)
      [] f.kind = "intro" -> {f.bv} \cup Variables(f.body)
      [] f.kind \in {"and", "or"} -> Variables(f.l) \cup Variables(f.r)
      [] OTHER -> {}

\* isla.fresh_constant(used, proposal): the proposed name, or the first of
\* name_0, name_1, ... that is not used.
RECURSIVE FreshName(_, _, _)
FreshName(used, name, idx) ==
    IF name \o "_" \o ToString(idx) \notin used THEN name \o "_" \o ToString(idx)
    ELSE FreshName(used, name, idx + 1)

fresh_constant(used, name) == IF name \notin used THEN name ELSE FreshName(used, name, 0)

\* A variant that takes the proposed name as it is.
proposed_constant(used, name) == name

\* Formula.substitute_variables({old: new}).
RenameArg(a, old, new) == IF IsVar(a) /\ a.var = old THEN VarArg(new) ELSE a

RECURSIVE substitute_variables(_, _, _)
substitute_variables(f, old, new) ==
    CASE f.kind = "smt" ->
            [f EXCEPT !.l = RenameArg(@, old, new), !.r = RenameArg(@, old, new),
                      !.free = IF old \in @ THEN (@ \ {old}) \cup {new} ELSE @]
      [] f.kind \in {"pred", "sempred"} ->
            [f EXCEPT !.args = [i \in 1..Len(f.args) |-> RenameArg(f.args[i], old, new)]]
      [] f.kind \in {"forall", "exists"} ->
            [f EXCEPT !.in = RenameArg(@, old, new),
                      !.body = substitute_variables(@, old, new)]
      [] f.kind = "intro" -> [f EXCEPT !.body = substitute_variables(@, old, new)]
      [] f.kind = "and" ->
            And(substitute_variables(f.l, old, new), substitute_variables(f.r, old, new))
      [] f.kind = "or" ->
            Or(substitute_variables(f.l, old, new), substitute_variables(f.r, old, new))
      [] OTHER -> f

\* A variant that instantiates the first introduction only.
IntroFirst(intros, f) ==
    replace_formula(f, Head(intros),
        substitute_variables(Head(intros).body, Head(intros).bv,
                             fresh_constant(Variables(f), Head(intros).bv)))

\* The loop of 430-441: each introduction is replaced by its inner formula
\* with a constant that is fresh for the formula as it is by then.
RECURSIVE IntroLoop(_, _)
IntroLoop(intros, f) ==
    IF intros = <<>> THEN f
    ELSE IntroLoop(Tail(intros),
            replace_formula(f, Head(intros),
                substitute_variables(Head(intros).body, Head(intros).bv,
                                     fresh_constant(Variables(f), Head(intros).bv))))

NumericConstantIntroductions(state) == SelectKind(get_conjuncts(state.constraint), "intro")

\* instantiate_numeric_constant_intros(state) (422-443): no states stands
\* for None.
instantiate_numeric_constant_intros(state) ==
    [states |-> IF NumericConstantIntroductions(state) = <<>> THEN <<>>
                ELSE << SolutionState(
                            IntroLoop(NumericConstantIntroductions(state), state.constraint),
                            state.tree, 0) >>,
     used |-> 0, ok |-> TRUE]

\* ------------------------------------ the rules on predicates, in solve()
\* Instantiate numeric constant introductions (328-332).
InstantiateNumericConstants ==
    \E i \in MinEntries :
        /\ RuleApplies(i)
        /\ instantiate_numeric_constant_intros(Popped(i)).states # <<>>
        /\ Pop(i, "instantiate_numeric_constant_intros")
        /\ Continue(process_new_state(AfterPop(i),
                        instantiate_numeric_constant_intros(Popped(i)).states[1],
                        queue[i].state.level, enforce_unique_trees_in_queue),
                    queue[i].state.level, 0, "loop")
        /\ UNCHANGED <<fuzz_state, fuzz_left>>

\* Eliminate all ready semantic predicate formulas (355-359).
EliminateReadyPredicates ==
    \E i \in MinEntries :
        /\ NoUniversalRule(i)
        /\ NumericConstantIntroductions(Popped(i)) = <<>>
        /\ SemanticFormulas(Popped(i)) = <<>>
        /\ eliminate_all_ready_semantic_predicate_formulas(Popped(i), next_id).states # <<>>
        /\ Pop(i, "eliminate_all_ready_semantic_predicate_formulas")
        /\ LET r == eliminate_all_ready_semantic_predicate_formulas(Popped(i), next_id)
           IN  Continue(process_new_state(AfterPop(i), r.states[1],
                            queue[i].state.level, enforce_unique_trees_in_queue),
                        queue[i].state.level, r.used, "loop")
        /\ UNCHANGED <<fuzz_state, fuzz_left>>

\* Trees of the solver's states: open trees as expansion leaves them, and
\* closed ones.
PredicateTrees ==
    { t \in HostTrees : TreeSize(t) <= MaxTreeSize } \cup
    { Node("<start>", 0, << Node("<list>", 1, <<
          Node("<var>", 2, << Node("a", 3, <<>>) >>) >>) >>),
      Node("<start>", 0, << Node("<list>", 1, <<
          OpenNode("<var>", 2), Node("<list>", 3, << OpenNode("<var>", 4) >>) >>) >>) }

\* Largest number count is asked for.
MaxCount == 3

Count(t, sym, n) == SemPred("count", <<TreeArg(t), StrArg(sym), n>>)

\* Constraints over a tree: count with a number, alone and in conjunctions,
\* a predicate that does not decide, and count under numeric constant
\* introductions (twice with the same bound variable, as universal matching
\* leaves the instances of one body).
PredicateConstraints(t) ==
    { Count(t, "<var>", NumArg(n)) : n \in 0..MaxCount } \cup
    { Count(t, "<start>", NumArg(n)) : n \in 0..2 } \cup
    { And(Count(t, "<var>", NumArg(n)), Count(t, "<start>", NumArg(m))) :
          n \in 0..MaxCount, m \in 1..2 } \cup
    { And(Count(t, "<start>", NumArg(m)), Count(t, "<var>", NumArg(n))) :
          n \in 0..MaxCount, m \in 1..2 } \cup
    { And(SemPred("neverReady", <<TreeArg(t)>>), Count(t, "<var>", NumArg(n))) :
          n \in 0..MaxCount } \cup
    { SemPred("neverReady", <<TreeArg(t)>>),
      Intro("N", Count(t, "<var>", VarArg("N"))),
      And(Intro("N", Count(t, "<var>", VarArg("N"))),
          Intro("M", Count(t, "<start>", VarArg("M")))),
      And(Intro("N", Count(t, "<var>", VarArg("N"))),
          Intro("N", Count(t, "<start>", VarArg("N")))),
      And(Intro("N", Count(t, "<var>", VarArg("N"))),
          And(Intro("N", Count(t, "<start>", VarArg("N"))),
              Intro("N_0", Count(t, "<list>", VarArg("N_0"))))),
      And(Intro("N", Count(t, "<var>", VarArg("N"))), Count(t, "<var>", NumArg(1))) }

PredicateStates ==
    UNION {{SolutionState(c, t, 0) : c \in PredicateConstraints(t)} : t \in PredicateTrees}

\* solve() at the top of the loop with one state in the queue.
PredicateInit ==
    /\ Constructed
    /\ formula = TrueF
    /\ quantifier_chains = universal_chains(formula)
    /\ enforce_unique_trees_in_queue \in BOOLEAN
    /\ max_number_free_instantiations = 1
    /\ max_number_smt_instantiations = 1
    /\ max_number_tree_insertion_results = 5
    /\ timeout_seconds = NoTimeout
    /\ \E state \in PredicateStates :
          /\ queue = << [cost |-> StateCost(state), state |-> state] >>
          /\ tree_hashes_in_queue = {structural_hash(state.tree)}
    /\ current_cost_phase = 0
    /\ current_cost_phase_since = 0
    /\ enqueued_in_phase = 1
    /\ pc = "loop"
    /\ failed = "none"
    /\ current_level = 0
    /\ current_state = NoState
    /\ current_cost = 0
    /\ applied_rule = "none"
    /\ next_id = 10
    /\ smt_state = NoState
    /\ smt_formulas = <<>>
    /\ solutions = <<>>
    /\ results = NoCall
    /\ pending = <<>>
    /\ ret = "loop"
    /\ fuzz_state = NoState
    /\ fuzz_left = 0
    /\ yielded = <<>>
    /\ elapsed = 0
    /\ truncated = FALSE

\* The iterations of solve() that take a rule on predicates.
PredicateNext ==
    \/ InstantiateNumericConstants
    \/ EliminateReadyPredicates
    \/ Yield
    \/ Exhausted

PredicateSpec == PredicateInit /\ [][PredicateNext]_vars

\* ------------------------------------------------------ count, by itself
\* The trees count is called on, rooted at <start>.
CountTrees ==
    HostTrees \cup PredicateTrees \cup
    { Node("<start>", 0, << Node("<list>", 1, <<
          Node("<var>", 2, << Node("a", 3, <<>>) >>),
          Node("<list>", 4, << Node("<var>", 5, << Node("b", 6, <<>>) >>) >>) >>) >>) }

CountInit ==
    /\ Unstarted
    /\ formula = TrueF
    /\ quantifier_chains = universal_chains(formula)
    /\ grammar = ListGrammar
    /\ symbol_cost_result = symbol_costs
    /\ nonterminal = "<start>"
    /\ input = <<>>
    /\ outcome = "none"
    /\ parsed = NoState.tree
    /\ pc = "call"

\* count(grammar, in_tree, needle, num) is called.
CallCount ==
    /\ pc = "call"
    /\ in_tree' \in CountTrees
    /\ needle' \in {"<var>", "<start>"}
    /\ num' \in {NumArg(n) : n \in 0..MaxCount} \cup {VarArg("N")}
    /\ evaluation_result' = count(in_tree', needle', num', 10)
    /\ pc' = "counted"
    /\ UNCHANGED <<engine, grammar, symbol_cost_result, nonterminal, input, outcome, parsed,
                   quantifier_chains, path_1, path_2>>

CountNext == CallCount

CountSpec == CountInit /\ [][CountNext]_vars

\* ------------------------------------- before and after, by themselves
\* The paths the predicates are called on: at most MaxPathLen child
\* indices, each at most MaxChildIndex.
MaxPathLen == 3
MaxChildIndex == 2

RECURSIVE PathsOfLength(_)
PathsOfLength(n) ==
    IF n = 0 THEN {<<>>}
    ELSE {Append(p, c) : p \in PathsOfLength(n - 1), c \in 1..MaxChildIndex}

TreePaths == UNION {PathsOfLength(n) : n \in 0..MaxPathLen}

PathInit ==
    /\ Unstarted
    /\ formula = TrueF
    /\ quantifier_chains = universal_chains(formula)
    /\ grammar = ListGrammar
    /\ symbol_cost_result = symbol_costs
    /\ nonterminal = "<start>"
    /\ input = <<>>
    /\ outcome = "none"
    /\ parsed = NoState.tree
    /\ pc = "call"

\* BEFORE_PREDICATE is evaluated on two paths.
CallBefore ==
    /\ pc = "call"
    /\ path_1' \in TreePaths
    /\ path_2' \in TreePaths
    /\ evaluation_result' = Decided(is_before(path_1', path_2'))
    /\ pc' = "before"
    /\ UNCHANGED <<engine, grammar, symbol_cost_result, nonterminal, input, outcome, parsed,
                   quantifier_chains, in_tree, needle, num>>

\* AFTER_PREDICATE is evaluated on two paths.
CallAfter ==
    /\ pc = "call"
    /\ path_1' \in TreePaths
    /\ path_2' \in TreePaths
    /\ evaluation_result' = Decided(after(path_1', path_2'))
    /\ pc' = "after"
    /\ UNCHANGED <<engine, grammar, symbol_cost_result, nonterminal, input, outcome, parsed,
                   quantifier_chains, in_tree, needle, num>>

PathNext == CallBefore \/ CallAfter

PathSpec == PathInit /\ [][PathNext]_vars

\* ------------------------------------- get_quantifier_chains, by itself
\* The formulas get_quantifier_chains is called on: quantified formulas
\* nested up to two deep, with conjunctions below and above them.
ChainAtom == VarEq("v", <<"a">>)

ChainLeaves == {ForallVar("v", ChainAtom), ExistsVar("w", ChainAtom), Intro("n", ChainAtom)}

ChainBodies ==
    ChainLeaves \cup {And(f, g) : f \in ChainLeaves, g \in ChainLeaves \cup {ChainAtom}}

ChainNested ==
    {ForallVar("x", b) : b \in ChainBodies} \cup {ExistsVar("y", b) : b \in ChainLeaves}

ChainFormulas ==
    {TrueF, ChainAtom} \cup
    {And(f, g) : f \in ChainLeaves \cup ChainNested, g \in ChainLeaves \cup ChainNested} \cup
    {Or(f, g) : f \in ChainLeaves, g \in ChainLeaves}

ChainInit ==
    /\ Unstarted
    /\ formula \in ChainFormulas
    /\ quantifier_chains = <<>>
    /\ grammar = ListGrammar
    /\ symbol_cost_result = symbol_costs
    /\ nonterminal = "<start>"
    /\ input = <<>>
    /\ outcome = "none"
    /\ parsed = NoState.tree
    /\ pc = "call"

\* get_quantifier_chains(formula) is called; quantifier_chains is its
\* result.
CallQuantifierChains ==
    /\ pc = "call"
    /\ quantifier_chains' = get_quantifier_chains(formula)
    /\ pc' = "chains"
    /\ UNCHANGED <<engine, grammar, symbol_cost_result, nonterminal, input, outcome, parsed,
                   predicates>>

ChainNext == CallQuantifierChains

ChainSpec == ChainInit /\ [][ChainNext]_vars

\* ------------------------------------------- the covered k-paths
\* A grammar whose graph has no path of three nodes.
FlatGrammar == Grammar(<<"<start>">>, ("<start>" :> << <<"a">>, <<"b">> >>))

\* A solver constructed for the list grammar or the flat one, with the
\* constraints of the model, solve() entered.
CoverageInit ==
    /\ grammar \in {ListGrammar, FlatGrammar}
    /\ symbol_cost_result \in compute_symbol_costs(grammar)
    /\ nonterminal = "<start>"
    /\ input = <<>>
    /\ outcome = "none"
    /\ parsed = NoState.tree
    /\ successors = <<>>
    /\ covered_k_paths = {}
    /\ NoPredicateCall
    /\ formula \in Formulas
    /\ quantifier_chains = universal_chains(formula)
    /\ enforce_unique_trees_in_queue \in BOOLEAN
    /\ max_number_free_instantiations = 1
    /\ max_number_smt_instantiations = 1
    /\ max_number_tree_insertion_results = 5
    /\ timeout_seconds \in {NoTimeout, 0}
    /\ LET acc == PushInitial(Acc(<<>>, {structural_hash(InitialTree)}, 0, 0, 0),
                              InitialStates(formula))
       IN  IF Cardinality(top_constants(formula)) = 1
           THEN /\ queue = acc.queue
                /\ tree_hashes_in_queue = acc.hashes
                /\ current_cost_phase = acc.phase
                /\ current_cost_phase_since = acc.since
                /\ enqueued_in_phase = acc.enqueued
                /\ pc = (IF acc.failed = "none" THEN "loop" ELSE "failed")
                /\ failed = acc.failed
           ELSE /\ queue = <<>>
                /\ tree_hashes_in_queue = {}
                /\ current_cost_phase = 0
                /\ current_cost_phase_since = 0
                /\ enqueued_in_phase = 0
                /\ pc = "failed"
                /\ failed = "top_constants"
    /\ current_level = 0
    /\ current_state = NoState
    /\ current_cost = 0
    /\ applied_rule = "none"
    /\ next_id = 1
    /\ smt_state = NoState
    /\ smt_formulas = <<>>
    /\ solutions = <<>>
    /\ results = NoCall
    /\ pending = <<>>
    /\ ret = "loop"
    /\ fuzz_state = NoState
    /\ fuzz_left = 0
    /\ yielded = <<>>
    /\ elapsed = 0
    /\ truncated = FALSE

\* solve() for either grammar.
CoverageSpec == CoverageInit /\ [][Next]_vars

\* ------------------------------------------------------------- properties

\* C1: every tree solve() yields is complete, and the solver's formula with
\* the top constant standing for that tree evaluates to true on it.
C1_Soundness ==
    \A k \in 1..Len(yielded) :
        is_complete(yielded[k]) /\ Evaluate(formula, TopConstantEnv, yielded[k])

\* A tree with two <var> nodes has been yielded for "every <var> is not a".
C1_Witness ==
    /\ formula = ForallVar("v", VarNe("v", <<"a">>))
    /\ \E k \in 1..Len(yielded) : TreeStr(yielded[k]) = <<"b", "b">>

\* C2: no state in the queue has a disjunction as its constraint, and the
\* assertion at the top of the loop has not failed.
C2_DNFInvariant ==
    /\ \A i \in 1..Len(queue) : ~IsDisjunctive(queue[i].state.constraint)
    /\ failed # "disjunctive"

\* The body of a universal formula is a disjunction; its two instances for
\* one <var> node are queued as two states over the same tree.
C2_Witness ==
    /\ formula = ForallVar("v", Or(VarEq("v", <<"a">>), VarEq("v", <<"b">>)))
    /\ \E i, j \in 1..Len(queue) :
          /\ i # j
          /\ queue[i].state.tree = queue[j].state.tree
          /\ queue[i].state.constraint # queue[j].state.constraint
          /\ queue[i].state.level > 1

\* C3: no dangling references.  Every tree argument of a structural
\* predicate and every tree of the substitutions of an SMT atom in the
\* constraint of a queued state is a node of the state's tree, and no rule
\* makes a state for which this fails: the checks of 753-783 and 1049-1074
\* never find a lost argument.
C3_NoDanglingReferences ==
    /\ \A i \in 1..Len(queue) : NoDanglingArguments(queue[i].state)
    /\ failed \notin {"dangling", "dangling_subtrees"}

QueueHash(q, k) == structural_hash(q[k].state.tree)

C5_OneStatePerHash ==
    enforce_unique_trees_in_queue =>
        \A i, j \in 1..Len(queue) : i # j => QueueHash(queue, i) # QueueHash(queue, j)

Expired == timeout_seconds # NoTimeout /\ elapsed > timeout_seconds

Terminated == pc \in {"done", "failed"}

Remaining == 2 * Len(pending) + 3 * fuzz_left + (IF pc = "loop" THEN 1 ELSE 0)

UnsatFormulas ==
    { ForallVar("v", VarEq("v", <<"a", "a">>)),
      And(VarEq("start", <<"a">>), VarEq("start", <<"b">>)),
      And(ForallVar("v", VarEq("v", <<"a">>)), ForallVar("w", VarEq("w", <<"b">>))) }

\* C7, as the specification states it: on an unsatisfiable constraint solve()
\* yields nothing and runs out of queued states; no state is left whose
\* successors go on beyond every bound.
C7_UnsatExhaustsQueue ==
    formula \in UnsatFormulas => (yielded = <<>> /\ ~truncated /\ failed = "none")

\* C10, as the specification states it: free fuzzing completes a state whose
\* constraint is true max_number_free_instantiations times, and a run on the
\* constraint true ends after exactly that many trees.
C10_FreeInstantiations ==
    /\ pc = "fuzz" => (fuzz_state.constraint = TrueF
                       /\ fuzz_left <= max_number_free_instantiations)
    /\ (formula = TrueF /\ timeout_seconds = NoTimeout /\ Terminated) =>
          (pc = "done" /\ Len(yielded) = max_number_free_instantiations)

\* The strings a solution assigns.
SolutionStrings(sol) ==
    [tm |-> [i \in DOMAIN sol.tm |-> TreeStr(sol.tm[i])],
     vm |-> [c \in DOMAIN sol.vm |-> TreeStr(sol.vm[c])]]

\* The joint assignments that satisfy the formulas solved for a cluster.
JointAssignments(fs) == z3_solve(SolvedFormulas(fs), <<>>)

C8_UnsatGivesNoSuccessor ==
    /\ pc = "solved" =>
          /\ JointAssignments(smt_formulas) = {} => solutions = <<>>
          /\ Len(solutions) < max_number_smt_instantiations
                => Len(solutions) = Cardinality(JointAssignments(smt_formulas))
    /\ (pc = "eliminated" /\ \E k \in 1..Len(ClustersOf(smt_state)) :
                                JointAssignments(ClustersOf(smt_state)[k]) = {})
          => (results.ok /\ results.states = <<>>)

\* An iteration of solve() that pops a state: the loop head lets it pass and
\* the step is no tick of the clock.
PopStep == CanPop /\ elapsed' = elapsed

\* The first rule of the order of solve() (328-392) that applies to a state
\* whose structural predicates are instantiated: universal matching,
\* expansion, SMT elimination, existential elimination, free instantiation
\* (the constraints here have no numeric constant introduction and no
\* semantic predicate, so these two rules never apply).
FirstApplicableRule(state) ==
    IF state.constraint = FalseF THEN "none"
    ELSE IF match_all_universal_formulas(state) # <<>> THEN "match_all_universal_formulas"
    ELSE IF \E k \in 1..Len(get_conjuncts(state.constraint)) :
                get_conjuncts(state.constraint)[k].kind = "forall" THEN "expand_tree"
    ELSE IF \E k \in 1..Len(split_conjunction(state.constraint)) :
                split_conjunction(state.constraint)[k].kind \in {"smt", "false"}
         THEN "eliminate_all_semantic_formulas"
    ELSE IF \E k \in 1..Len(split_conjunction(state.constraint)) :
                split_conjunction(state.constraint)[k].kind = "exists"
         THEN "eliminate_first_match_all_existential_formulas"
    ELSE "free_instantiation"

HasKind(state, k) ==
    \E c \in 1..Len(get_conjuncts(state.constraint)) :
        get_conjuncts(state.constraint)[c].kind = k

\* C12, as the specification states it: a popped state with an SMT atom and
\* a universal formula gets the SMT atoms eliminated, and a popped state with
\* an existential and a universal formula gets the existential formula
\* eliminated.
C12_SmtAndExistentialFirst ==
    [][PopStep =>
          LET state == instantiate_structural_predicates(current_state')
          IN  /\ (HasKind(state, "smt") /\ HasKind(state, "forall"))
                    => applied_rule' = "eliminate_all_semantic_formulas"
              /\ (HasKind(state, "exists") /\ HasKind(state, "forall")
                     /\ ~HasKind(state, "smt"))
                    => applied_rule' = "eliminate_first_match_all_existential_formulas"]_vars

\* C12, as the code has it: while the popped state has a universal formula
\* the iteration matches it or expands the tree, whatever SMT atoms and
\* existential formulas the state has besides; the SMT atoms are eliminated
\* once no universal formula is left, and an existential formula once no
\* SMT atom is left either.
C12_UniversalFirst ==
    [][PopStep =>
          LET state == instantiate_structural_predicates(current_state')
          IN  /\ HasKind(state, "forall")
                    => applied_rule' \in {"match_all_universal_formulas", "expand_tree"}
              /\ (HasKind(state, "smt") /\ ~HasKind(state, "forall"))
                    => applied_rule' = "eliminate_all_semantic_formulas"
              /\ (HasKind(state, "exists") /\ ~HasKind(state, "forall")
                     /\ ~HasKind(state, "smt"))
                    => applied_rule' = "eliminate_first_match_all_existential_formulas"]_vars

\* A state with an existential and a universal formula was popped and its
\* tree was expanded; the existential formula is in the pushed states.
C12_Witness ==
    /\ applied_rule = "expand_tree"
    /\ HasKind(current_state, "exists")
    /\ \E i \in 1..Len(queue) :
          /\ queue[i].state.level = current_state.level + 1
          /\ HasKind(queue[i].state, "exists")
          /\ TreeSize(queue[i].state.tree) > TreeSize(current_state.tree)

\* The existential formula tree insertion was called for.
InsertedFor == ExistentialFormulas(current_state)[1]

\* The structures of the insertion results insert_tree has for one of the
\* inserted trees of the formula.
InsertionResultsOf(prefix) ==
    {structural_hash(insert_tree(WithIds(prefix.tree, next_id), InsertedFor.in.tree,
                                 next_id + StructSize(prefix.tree))[k]) :
        k \in 1..Len(insert_tree(WithIds(prefix.tree, next_id), InsertedFor.in.tree,
                                 next_id + StructSize(prefix.tree)))}

ResultTrees == {structural_hash(results.states[k].tree) : k \in 1..Len(results.states)}

\* The results taken are insertion results of least closing cost.
LowestClosingCost(taken, all) ==
    /\ taken \subseteq all
    /\ \A t \in taken : \A u \in all \ taken :
          compute_tree_closing_cost(t) <= compute_tree_closing_cost(u)

\* C13, as the specification states it: eliminating an existential formula
\* by tree insertion gives at most max_number_tree_insertion_results states,
\* and their trees are insertion results of least closing cost.
C13_AtMostMaxResults ==
    pc = "inserted" =>
        /\ Len(results.states) <= max_number_tree_insertion_results
        /\ LowestClosingCost(ResultTrees,
               UNION {InsertionResultsOf(inserted_trees_and_bind_paths(InsertedFor)[k]) :
                         k \in 1..Len(inserted_trees_and_bind_paths(InsertedFor))})

\* C13, as the code has it: every inserted tree of the formula (one without
\* a match expression, one per tree prefix of the match expression else)
\* gets at most max_number_tree_insertion_results states, those of its
\* insertion results of least closing cost, and all of them if there are no
\* more than that.
C13_AtMostMaxPerInsertedTree ==
    pc = "inserted" =>
        /\ Len(results.states) <=
              max_number_tree_insertion_results * Len(inserted_trees_and_bind_paths(InsertedFor))
        /\ ResultTrees \subseteq
              UNION {InsertionResultsOf(inserted_trees_and_bind_paths(InsertedFor)[k]) :
                        k \in 1..Len(inserted_trees_and_bind_paths(InsertedFor))}
        /\ \A k \in 1..Len(inserted_trees_and_bind_paths(InsertedFor)) :
              /\ LowestClosingCost(
                     ResultTrees \cap InsertionResultsOf(inserted_trees_and_bind_paths(InsertedFor)[k]),
                     InsertionResultsOf(inserted_trees_and_bind_paths(InsertedFor)[k]))
              /\ Cardinality(ResultTrees \cap
                             InsertionResultsOf(inserted_trees_and_bind_paths(InsertedFor)[k]))
                    = Min(max_number_tree_insertion_results,
                          Cardinality(InsertionResultsOf(
                              inserted_trees_and_bind_paths(InsertedFor)[k])))

\* Two insertion results of different closing cost and room for one: the
\* state made is the one whose tree is cheaper to close.
C13_Witness ==
    /\ pc = "inserted"
    /\ max_number_tree_insertion_results = 1
    /\ ~HasBindExpression(InsertedFor)
    /\ Len(results.states) = 1
    /\ \E u \in InsertionResultsOf(inserted_trees_and_bind_paths(InsertedFor)[1]) :
          compute_tree_closing_cost(u) > compute_tree_closing_cost(results.states[1].tree)

\* C14, as the specification states it: the phase index is an index of the
\* weight vectors, and once cost_phase_lengths[p] states have been enqueued
\* in phase p the next cost is computed in the next phase, so no phase ever
\* has more states enqueued in it than its length, whatever was popped in
\* between.
C14_PhaseAfterEnqueues ==
    /\ current_cost_phase \in 0..(NumWeightVectors - 1)
    /\ enqueued_in_phase <= cost_phase_lengths[current_cost_phase + 1]

\* C15: after compute_symbol_costs, on every path without a cycle from the
\* start symbol to a nonterminal, each symbol's cost is at least the cost of
\* the next symbol of the path plus 1.
C15_CostsDecrease ==
    pc = "computed" =>
        \A p \in CycleFreePaths(grammar, <<"<start>">>) :
            \A k \in 2..Len(p) :
                symbol_cost_result[p[k - 1]] >= symbol_cost_result[p[k]] + 1

\* C16: parse returns the derivation tree of an input that parses and
\* satisfies the constraint, raises a syntax error for an input that does
\* not parse, and raises a semantic error for an input that parses and
\* violates the constraint.
C16_ParseOutcome ==
    pc = "parsed" =>
        IF ~Parses(nonterminal, input) THEN outcome = "SyntaxError"
        ELSE /\ evaluate(formula, InputTree(nonterminal, parse(nonterminal, input))) = "true"
                    => outcome = "returned" /\ parsed = parse(nonterminal, input)
             /\ evaluate(formula, InputTree(nonterminal, parse(nonterminal, input))) = "false"
                    => outcome = "SemanticError"

TrueCostsNothing(q) ==
    \A k \in 1..Len(q) : q[k].state.constraint = TrueF => q[k].cost = 0

\* C18: each pop of solve() removes an entry of the queue whose recorded cost
\* is at most the recorded cost of every entry of the queue at the pop, and
\* the recorded cost of a state whose constraint is true is 0.
C18_BestFirst ==
    [][/\ TrueCostsNothing(queue)
       /\ TrueCostsNothing(queue')
       /\ PopStep =>
             /\ \E i \in 1..Len(queue) :
                   /\ queue[i].state = current_state'
                   /\ queue[i].cost = current_cost'
             /\ \A k \in 1..Len(queue) : current_cost' <= queue[k].cost]_vars

\* A state was popped at cost 0 with the constraint true while the queue
\* held a dearer entry, which is still there.
C18_Witness ==
    /\ applied_rule = "free_instantiation"
    /\ current_state.constraint = TrueF
    /\ current_cost = 0
    /\ \E k \in 1..Len(queue) :
          queue[k].cost > 0 /\ queue[k].state.level <= current_state.level

\* An iteration of solve() that hands its successors to process_new_states
\* and ends without a failed assertion.
ProcessStep ==
    /\ pc \in {"loop", "fuzz"}
    /\ elapsed' = elapsed
    /\ pc' \notin {"done", "failed"}

\* The successors with a complete tree and the constraint true.
CompleteSuccessors(states) ==
    SelectSeq(states, LAMBDA s : is_complete(s.tree) /\ s.constraint = TrueF)

\* C19: the trees an iteration yields are those of its successors that are
\* complete (complete tree, constraint true), one for one, and no such state
\* is pushed; no state of the queue has the constraint false.
C19_YieldedIffComplete ==
    [][ProcessStep =>
          /\ pending' = [k \in 1..Len(CompleteSuccessors(successors')) |->
                            CompleteSuccessors(successors')[k].tree]
          /\ \A k \in 1..Len(queue') :
                /\ ~(is_complete(queue'[k].state.tree) /\ queue'[k].state.constraint = TrueF)
                /\ queue'[k].state.constraint # FalseF]_vars

\* An iteration had several successors, the complete ones of which are about
\* to be yielded while the queue holds other states.
C19_Witness ==
    /\ pc = "yield"
    /\ Len(successors) >= 2
    /\ pending # <<>>
    /\ Len(pending) = Len(CompleteSuccessors(successors))
    /\ queue # <<>>

\* C20: the states process_new_state emits are the disjuncts of the
\* successor's constraint, one state each, and every emitted state that is
\* neither false nor complete is a state of the queue afterwards, also with
\* enforce_unique_trees_in_queue (states beyond the tree size bound of the
\* model aside).
C20_NoDisjunctLost ==
    [][ProcessStep =>
          \A k \in 1..Len(successors') :
              /\ ~IsDisjunctive(successors'[k].constraint)
              /\ (/\ successors'[k].constraint # FalseF
                  /\ ~(is_complete(successors'[k].tree) /\ successors'[k].constraint = TrueF)
                  /\ TreeSize(successors'[k].tree) <= MaxTreeSize)
                 => \E j \in 1..Len(queue') :
                       /\ queue'[j].state.tree = successors'[k].tree
                       /\ queue'[j].state.constraint = successors'[k].constraint]_vars

\* The universal conjuncts of a state.
Universals(state) == SelectKind(split_conjunction(state.constraint), "forall")

\* The ids of the nodes a universal formula binds that it has not matched.
UnmatchedIds(uf) ==
    {get_subtree(uf.in.tree, UnmatchedMatches(uf)[k]).id : k \in 1..Len(UnmatchedMatches(uf))}

\* The universal formula with its unmatched nodes recorded as matched.
WithMatches(uf) == [uf EXCEPT !.already_matched = @ \cup UnmatchedIds(uf)]

\* The body of a universal formula instantiated for the node at a path.
BodyFor(uf, p) ==
    substitute_expressions(uf.body, [v \in {uf.bv} |-> get_subtree(uf.in.tree, p)], EmptyMap)

\* The conjuncts universal matching is to leave: the conjuncts of the state
\* with every universal formula's matches recorded, and one instantiated body
\* per unmatched node of every universal formula.
MatchedConjuncts(state) ==
    {IF c.kind = "forall" THEN WithMatches(c) ELSE c :
         c \in SeqRange(split_conjunction(state.constraint))}
    \cup UNION {UNION {SeqRange(split_conjunction(BodyFor(uf, UnmatchedMatches(uf)[k]))) :
                          k \in 1..Len(UnmatchedMatches(uf))} :
                uf \in SeqRange(Universals(state))}

\* The state the rule of the last pop was applied to.
RuleState == instantiate_structural_predicates(current_state)

\* C21: universal matching adds one instantiated body per unmatched node of
\* each universal conjunct and records those nodes as matched, so that the
\* successors have no unmatched node left for that formula and already_matched
\* never shrinks; the rule applies exactly when some universal conjunct has an
\* unmatched node.
C21_MatchOncePerNode ==
    /\ applied_rule = "match_all_universal_formulas" =>
          /\ \E uf \in SeqRange(Universals(RuleState)) : UnmatchedIds(uf) # {}
          /\ LET r == match_all_universal_formulas(RuleState)[1].constraint
             IN  IF FalseF \in MatchedConjuncts(RuleState) THEN r = FalseF
                 ELSE SeqRange(split_conjunction(r)) \ {TrueF}
                          = MatchedConjuncts(RuleState) \ {TrueF}
          /\ \A uf \in SeqRange(Universals(RuleState)) :
                \A k \in 1..Len(successors) :
                    \A g \in SeqRange(Universals(successors[k])) :
                        g.bv = uf.bv =>
                            /\ g.already_matched = uf.already_matched \cup UnmatchedIds(uf)
                            /\ UnmatchedIds(g) = {}
    /\ applied_rule \in {"expand_tree", "eliminate_all_semantic_formulas",
                         "eliminate_first_match_all_existential_formulas"} =>
          /\ \A uf \in SeqRange(Universals(RuleState)) : UnmatchedIds(uf) = {}
          /\ \A uf \in SeqRange(Universals(RuleState)) :
                \A k \in 1..Len(successors) :
                    \A g \in SeqRange(Universals(successors[k])) :
                        g.bv = uf.bv => uf.already_matched \subseteq g.already_matched

\* Universal matching was applied to a state with two universal conjuncts,
\* one of which had matched a node before, and a successor was emitted.
C21_Witness ==
    /\ applied_rule = "match_all_universal_formulas"
    /\ Len(Universals(RuleState)) = 2
    /\ \E uf \in SeqRange(Universals(RuleState)) :
          uf.already_matched # {} /\ UnmatchedIds(uf) # {}
    /\ successors # <<>>

\* The open leaves of a state some universal conjunct might match.
LeavesToExpand(state) ==
    {p \in open_leaves(state.tree) :
        \E uf \in SeqRange(SelectKind(get_conjuncts(state.constraint), "forall")) :
            quantified_formula_might_match(uf, p, state.tree)}

\* The number of alternatives of the leaf at a path.
AlternativesAt(t, p) == Len(canonical_grammar[get_subtree(t, p).value])

\* One alternative for every leaf of a set: the elements of the product.
AlternativeChoices(t, leaves) ==
    {c \in [leaves -> UNION {1..AlternativesAt(t, p) : p \in leaves}] :
        \A p \in leaves : c[p] <= AlternativesAt(t, p)}

\* The product of the numbers of alternatives of the leaves of a set.
RECURSIVE AlternativeProduct(_, _)
AlternativeProduct(t, leaves) ==
    IF leaves = {} THEN 1
    ELSE LET p == CHOOSE q \in leaves : TRUE
         IN  AlternativesAt(t, p) * AlternativeProduct(t, leaves \ {p})

\* The symbols of the children of the node at a path.
ChildValues(t, p) ==
    [i \in 1..Len(get_subtree(t, p).children) |-> get_subtree(t, p).children[i].value]

\* The tree is the popped tree with alternative c[p] at every leaf p of the
\* set: the leaf keeps its id and has the symbols of the alternative as
\* children, every other node is as it was.
ExpandedBy(t, popped, leaves, c) ==
    /\ paths(t) = paths(popped) \cup UNION {
          {Append(p, i) : i \in 1..Len(canonical_grammar[get_subtree(popped, p).value][c[p]])} :
              p \in leaves}
    /\ \A p \in paths(popped) :
          /\ get_subtree(t, p).id = get_subtree(popped, p).id
          /\ get_subtree(t, p).value = get_subtree(popped, p).value
          /\ IF p \in leaves
             THEN /\ ~get_subtree(t, p).open
                  /\ ChildValues(t, p) = canonical_grammar[get_subtree(popped, p).value][c[p]]
                  /\ \A i \in 1..Len(get_subtree(t, p).children) :
                        /\ get_subtree(t, p).children[i].children = <<>>
                        /\ get_subtree(t, p).children[i].open
                              = is_nonterminal(get_subtree(t, p).children[i].value)
             ELSE get_subtree(t, p).open = get_subtree(popped, p).open

\* What expand_tree is to return for a popped state: one state per choice of
\* alternatives, no two for the same choice, each over a tree that differs
\* structurally from the popped one.
ExpandsProduct(popped, result) ==
    LET leaves == LeavesToExpand(popped)
        choices == AlternativeChoices(popped.tree, leaves)
    IN  /\ Len(result) = AlternativeProduct(popped.tree, leaves)
        /\ \A c \in choices :
              \E k \in 1..Len(result) : ExpandedBy(result[k].tree, popped.tree, leaves, c)
        /\ \A k \in 1..Len(result) :
              /\ \E c \in choices : ExpandedBy(result[k].tree, popped.tree, leaves, c)
              /\ structural_hash(result[k].tree) # structural_hash(popped.tree)

C23_NeverStuck == failed # "never_leaves_queue"

\* The states matching all existential conjuncts of a state gives; none when
\* nothing matched.
MatchedStates(state) ==
    IF MatchRounds(ExistentialFormulas(state), <<state>>) = <<state>> THEN {}
    ELSE SeqRange(MatchRounds(ExistentialFormulas(state), <<state>>))

\* The matched states that are complete or have the constraint true.
MatchedAndDone(state) ==
    {s \in MatchedStates(state) : (is_complete(s.tree) /\ s.constraint = TrueF)
                                      \/ s.constraint = TrueF}

\* What existential elimination is to return for a popped state: the
\* matched states that are done if there is one, and nothing of a tree
\* insertion; else the insertion results for the first existential conjunct,
\* and besides them matched states only.
MatchesBeforeInsertion(popped, result, inserted) ==
    IF MatchedAndDone(popped) # {}
    THEN /\ SeqRange(result.states) = MatchedAndDone(popped)
         /\ result.used = 0
    ELSE /\ SeqRange(inserted.states) \subseteq SeqRange(result.states)
         /\ SeqRange(result.states) \subseteq MatchedStates(popped) \cup SeqRange(inserted.states)
         /\ result.used = inserted.used

\* C24: existential elimination first matches the existential conjuncts; if
\* a matched state is complete or has the constraint true, the successors are
\* exactly those states and no tree is inserted; otherwise a tree is inserted
\* for the first existential conjunct only and the results are successors.
C24_MatchBeforeInsertion ==
    [][(PopStep /\ applied_rule' = "eliminate_first_match_all_existential_formulas")
          => MatchesBeforeInsertion(
                RuleState',
                eliminate_first_match_all_existential_formulas(
                    RuleState', formula, next_id, max_number_tree_insertion_results),
                eliminate_existential_formula(
                    ExistentialFormulas(RuleState')[1], RuleState', formula, next_id,
                    max_number_tree_insertion_results))]_vars

\* Existential elimination was applied to a state one of whose matched
\* states has the constraint true, and for whose first existential conjunct
\* a tree could be inserted.
C24_Witness ==
    /\ applied_rule = "eliminate_first_match_all_existential_formulas"
    /\ MatchedAndDone(RuleState) # {}
    /\ eliminate_existential_formula(
           ExistentialFormulas(RuleState)[1], RuleState, formula, next_id,
           max_number_tree_insertion_results).states # <<>>

\* The universal conjuncts of a state whose body is true.
TrueBodied(state) == {uf \in SeqRange(Universals(state)) : uf.body = TrueF}

\* The state has a universal conjunct for the bound variable of uf.
Keeps(state, uf) == \E g \in SeqRange(Universals(state)) : g.bv = uf.bv

\* An open leaf of the tree might be matched by the universal formula.
MightStillMatch(uf, t) ==
    \E p \in open_leaves(t) : reachable(get_subtree(t, p).value, uf.ntype)

\* C25 as stated: after a universal matching step on a state with a
\* universal formula whose body is true, no successor has that formula.
C25_TrueBodyGone ==
    [][(PopStep /\ applied_rule' = "match_all_universal_formulas")
          => \A uf \in TrueBodied(RuleState') :
                \A k \in 1..Len(successors') : ~Keeps(successors'[k], uf)]_vars

\* C25, amended: after a universal matching step on a state with a universal
\* formula whose body is true, a successor has that formula exactly if an
\* open leaf of its tree might still be matched by it.
C25_TrueBodyGoneWhenInfeasible ==
    [][(PopStep /\ applied_rule' = "match_all_universal_formulas")
          => \A uf \in TrueBodied(RuleState') :
                \A k \in 1..Len(successors') :
                    Keeps(successors'[k], uf) <=> MightStillMatch(uf, successors'[k].tree)]_vars

\* A universal formula whose body is true was matched in a tree no open leaf
\* of which might match it, and the successor has the constraint true.
C25_Witness ==
    /\ applied_rule = "match_all_universal_formulas"
    /\ TrueBodied(RuleState) # {}
    /\ Len(successors) = 1
    /\ successors[1].constraint = TrueF
    /\ is_open(successors[1].tree)

\* Two SMT atoms share a variable.
SharesVariable(f, g) == AtomVars(f) \cap AtomVars(g) # {}

\* A tree substituted in f is a tree substituted in g or a sub-tree of one.
TreeInside(f, g) ==
    \E t \in Range(f.subst), ot \in Range(g.subst) : HasNode(ot, t.id)

\* The atoms the claim wants in one cluster.
BelongTogether(f, g) == SharesVariable(f, g) \/ TreeInside(f, g) \/ TreeInside(g, f)

\* The clusters an atom is in.
ClustersWith(clusters, f) == {k \in 1..Len(clusters) : f \in SeqRange(clusters[k])}

\* C26: in eliminate_semantic_formula every SMT atom is in exactly one
\* cluster, and two atoms that share a variable or a substituted tree, or of
\* which one's substituted tree is a sub-tree of the other's, are in the same
\* cluster (and so are the atoms a chain of such pairs joins).
C26_Clusters ==
    pc = "eliminated" =>
        LET fs == rename_instantiated_variables_in_smt_formulas(SemanticFormulas(smt_state))
        IN  /\ \A i \in 1..Len(fs) : Cardinality(ClustersWith(ClustersOf(smt_state), fs[i])) = 1
            /\ \A i, j \in 1..Len(fs) :
                  BelongTogether(fs[i], fs[j]) =>
                      ClustersWith(ClustersOf(smt_state), fs[i])
                          = ClustersWith(ClustersOf(smt_state), fs[j])

\* A state with two clusters was eliminated, one of them with two atoms that
\* share no variable: the tree of one is inside the tree of the other.
C26_Witness ==
    /\ pc = "eliminated"
    /\ Len(ClustersOf(smt_state)) = 2
    /\ \E k \in 1..Len(ClustersOf(smt_state)) :
          \E f, g \in SeqRange(ClustersOf(smt_state)[k]) :
              /\ f # g
              /\ ~SharesVariable(f, g)
              /\ TreeInside(f, g)

\* The number of solutions solve_quantifier_free_formula returns for a
\* cluster: one per query until the backend has no further assignment.
SolutionCount(cluster) ==
    Min(max_number_smt_instantiations, Cardinality(z3_solve(SolvedFormulas(cluster), <<>>)))

RECURSIVE SolutionCountProduct(_)
SolutionCountProduct(clusters) ==
    IF clusters = <<>> THEN 1
    ELSE SolutionCount(Head(clusters)) * SolutionCountProduct(Tail(clusters))

\* The state has a substitute for the tree of every atom of every cluster.
AssignsEveryCluster(state, clusters) ==
    \A k \in 1..Len(clusters) :
        \A f \in SeqRange(clusters[k]) :
            \A t \in Range(f.subst) : ~HasNode(state.tree, t.id)

\* C27: for a state whose SMT atoms form several independent clusters,
\* eliminate_semantic_formula returns one successor for every combination of
\* one solution per cluster: as many as the product of the clusters'
\* solution counts, each assigning the variables of every cluster.
C27_ProductOfSolutions ==
    (pc = "eliminated" /\ results.ok /\ Len(ClustersOf(smt_state)) > 1) =>
        /\ Len(results.states) = SolutionCountProduct(ClustersOf(smt_state))
        /\ \A j \in 1..Len(results.states) :
              AssignsEveryCluster(results.states[j], ClustersOf(smt_state))

\* The ids of the trees the solutions of a call are keyed by.
SolvedTrees(sols) == UNION {DOMAIN sols[j].tm : j \in 1..Len(sols)}

\* C28: when some atoms of the cluster substitute a tree that lies strictly
\* inside a tree another atom substitutes, solve_quantifier_free_formula
\* solves those atoms alone, and no atom among them substitutes a tree that
\* lies strictly inside the tree of another of them: the assertion after the
\* reduction (901) holds.
C28_ConflictsFirst ==
    (pc \in {"solved", "asserted"} /\ get_conflicts(smt_formulas) # <<>>) =>
        /\ SolvedTrees(solutions)
              \subseteq {t.id : t \in UNION {Range(get_conflicts(smt_formulas)[i].subst) :
                                                i \in 1..Len(get_conflicts(smt_formulas))}}
        /\ get_conflicts(get_conflicts(smt_formulas)) = <<>>

\* C29: every SMT solution is lifted to the sub-trees of the tree it
\* replaces: every path of the original tree is a path of the parsed
\* solution, the substitution maps the original sub-tree at the path to the
\* sub-tree of the parsed solution at it, and the substituted tree of the
\* state has the parsed solution where the original tree was.
C29_LiftedToSubtrees ==
    pc = "solved" =>
        \A j \in 1..Len(solutions) :
            \A i \in DOMAIN solutions[j].tm :
                /\ \A p \in paths(solutions[j].orig[i]) :
                      /\ is_valid_path(solutions[j].tm[i], p)
                      /\ get_subtree(solutions[j].orig[i], p).id
                            \in DOMAIN solution_with_subtrees(solutions[j])
                      /\ solution_with_subtrees(solutions[j])[get_subtree(solutions[j].orig[i], p).id]
                            = get_subtree(solutions[j].tm[i], p)
                /\ get_subtree(substitute(smt_state.tree, solution_with_subtrees(solutions[j])),
                               find_node(smt_state.tree, i))
                      = solutions[j].tm[i]

\* A solution for a tree with sub-trees: the <list> node with its two leaves.
C29_Witness ==
    /\ pc = "solved"
    /\ \E j \in 1..Len(solutions) :
          \E i \in DOMAIN solutions[j].tm :
              /\ Cardinality(paths(solutions[j].orig[i])) > 2
              /\ Cardinality(paths(solutions[j].tm[i])) > Cardinality(paths(solutions[j].orig[i]))

\* The variables of a list of atoms, and the tree a variable stands for in
\* them.
VariablesOf(fs) == UNION {fs[i].free \cup DOMAIN fs[i].subst : i \in 1..Len(fs)}

HasTree(fs, v) == \E i \in 1..Len(fs) : v \in DOMAIN fs[i].subst

TreeOf(fs, v) == fs[CHOOSE i \in 1..Len(fs) : v \in DOMAIN fs[i].subst].subst[v]

\* The string a solution assigns to each variable of the atoms.
AssignedStrings(fs, sol) ==
    [v \in VariablesOf(fs) |->
        IF HasTree(fs, v) THEN TreeStr(sol.tm[TreeOf(fs, v).id]) ELSE TreeStr(sol.vm[v])]

\* The solution has one entry for each variable of the atoms, keyed by the
\* tree of the variable when it has one; the strings satisfy all atoms and
\* lie in the language of each variable.
SolvesAtoms(fs, sol) ==
    /\ DOMAIN sol.tm = {TreeOf(fs, v).id : v \in {u \in VariablesOf(fs) : HasTree(fs, u)}}
    /\ DOMAIN sol.vm = {v \in VariablesOf(fs) : ~HasTree(fs, v)}
    /\ \A i \in 1..Len(fs) :
          EvalCmp(fs[i].op, ArgValue(fs[i].l, AssignedStrings(fs, sol)),
                            ArgValue(fs[i].r, AssignedStrings(fs, sol)))
    /\ \A v \in VariablesOf(fs) : AssignedStrings(fs, sol)[v] \in ConstantRegex(fs, v)

\* C30 as stated: every solution solve_quantifier_free_formula returns has
\* an entry for each variable of the cluster and satisfies all atoms of the
\* cluster, within the language of each variable.
C30_SolvesCluster ==
    pc = "solved" => \A j \in 1..Len(solutions) : SolvesAtoms(smt_formulas, solutions[j])

\* C30, amended: every solution has an entry for each variable of the atoms
\* solved in the round (the atoms with a tree inside the tree of another
\* atom when there are such, else all atoms of the cluster) and satisfies
\* those atoms, within the language of each of their variables.
C30_SolvesRound ==
    pc = "solved" =>
        \A j \in 1..Len(solutions) : SolvesAtoms(SolvedFormulas(smt_formulas), solutions[j])

\* Two solutions were returned for a cluster of two atoms over two trees, of
\* which the one inside the other was solved.
C30_Witness ==
    /\ pc = "solved"
    /\ Len(solutions) = 2
    /\ Len(smt_formulas) = 2
    /\ Len(SolvedFormulas(smt_formulas)) = 1

\* An iteration of solve() that applies the rule on ready semantic
\* predicates to the state it pops.
ReadyPredicateStep ==
    /\ PopStep
    /\ applied_rule' = "eliminate_all_ready_semantic_predicate_formulas"

\* The evaluations the rule makes on a state.
Evaluations(state) ==
    eliminate_all_ready_semantic_predicate_formulas(state, next_id).evaluations

SomeIs(evaluations, ev) == \E k \in 1..Len(evaluations) : evaluations[k] = ev

\* C31: when a predicate the rule on ready semantic predicates evaluates
\* returns false, the successor has the constraint false and the iteration
\* enqueues and yields nothing; the rule makes no progress (and so is not
\* the rule of the iteration) when every predicate it evaluates is not ready.
C31_FalseOrNoProgress ==
    [][ReadyPredicateStep =>
          LET state == instantiate_structural_predicates(current_state')
          IN  /\ SomeIs(Evaluations(state), Decided(FALSE)) =>
                    /\ Len(successors') = 1
                    /\ successors'[1].constraint = FalseF
                    /\ Len(queue') = Len(queue) - 1
                    /\ \A k \in 1..Len(queue') : queue'[k].state # successors'[1]
                    /\ pending' = <<>>
                    /\ yielded' = yielded
              /\ \E k \in 1..Len(Evaluations(state)) :
                    Evaluations(state)[k] # NotReady]_vars

\* No predicate of a state is ready: the rule returns None.
C31_NoneWhenNotReady ==
    \A i \in 1..Len(queue) :
        LET state == instantiate_structural_predicates(queue[i].state)
        IN  (\A k \in 1..Len(Evaluations(state)) : Evaluations(state)[k] = NotReady)
            => eliminate_all_ready_semantic_predicate_formulas(state, next_id).states = <<>>

\* The second predicate of a conjunction was false after the first was
\* decided: a state with the constraint false was dropped.
C31_Witness ==
    /\ applied_rule = "eliminate_all_ready_semantic_predicate_formulas"
    /\ current_state.constraint.kind = "and"
    /\ Len(successors) = 1
    /\ successors[1].constraint = FalseF
    /\ Len(Evaluations(current_state)) = 2
    /\ queue = <<>>

\* The conjuncts of a state that are numeric constant introductions.
IntroConjuncts(state) ==
    {k \in 1..Len(get_conjuncts(state.constraint)) :
        get_conjuncts(state.constraint)[k].kind = "intro"}

\* The successor has, for each introduction conjunct of the state, its inner
\* formula with the constant cs[k] for the bound variable, and the other
\* conjuncts as they were; cs[k] is in no other conjunct of the successor
\* and the constants are pairwise distinct.
IntroducedBy(state, result, cs) ==
    LET conj == get_conjuncts(state.constraint)
        rconj == get_conjuncts(result.constraint)
    IN  /\ Len(rconj) = Len(conj)
        /\ \A k \in 1..Len(conj) :
              IF k \in IntroConjuncts(state)
              THEN /\ rconj[k] = substitute_variables(conj[k].body, conj[k].bv, cs[k])
                   /\ \A j \in 1..Len(conj) \ {k} : cs[k] \notin Variables(rconj[j])
                   /\ \A j \in IntroConjuncts(state) \ {k} : cs[j] # cs[k]
              ELSE rconj[k] = conj[k]

\* C32: numeric constant introduction replaces every top-level introduction
\* conjunct by its inner formula with a constant that is nowhere else in the
\* constraint, and the constants of several introductions of one state are
\* pairwise distinct.
C32_FreshConstants ==
    [][PopStep /\ applied_rule' = "instantiate_numeric_constant_intros" =>
          /\ Len(successors') = 1
          /\ successors'[1].tree = current_state'.tree
          /\ \E cs \in [1..Len(get_conjuncts(current_state'.constraint)) ->
                            Variables(successors'[1].constraint) \cup {"none"}] :
                IntroducedBy(instantiate_structural_predicates(current_state'),
                             successors'[1], cs)]_vars

\* Two introductions with the same bound variable were instantiated.
C32_Witness ==
    /\ applied_rule = "instantiate_numeric_constant_intros"
    /\ Len(successors) = 1
    /\ Cardinality(IntroConjuncts(current_state)) = 2
    /\ \A k \in IntroConjuncts(current_state) :
          get_conjuncts(current_state.constraint)[k].bv = "N"
    /\ Cardinality(Variables(successors[1].constraint)) = 2

\* The number of queue entries a step keeps: all but the popped one.
KeptEntries == IF PopStep THEN Len(queue) - 1 ELSE Len(queue)

\* C33: the initial states have level 0, and every state pushed during an
\* iteration has the level of the state popped in that iteration plus 1.
C33_LevelIsDepth ==
    /\ (applied_rule = "none" /\ current_state = NoState /\ yielded = <<>>)
           => \A k \in 1..Len(queue) : queue[k].state.level = 0
    /\ [][\A k \in 1..Len(queue') :
              k > KeptEntries => queue'[k].state.level = current_state'.level + 1]_vars

\* A state two rule steps from the initial state is in the queue.
C33_Witness ==
    /\ \E k \in 1..Len(queue) : queue[k].state.level = 2
    /\ current_state.level = 1

\* C34: the covered k-paths are reset as soon as they are all the k-paths of
\* the grammar graph, so whenever the global k-coverage cost of a state is
\* computed the number of missing k-paths is positive: no division by
\* zero, and the cost 1 - contributed / missing lies between 0 and 1.
C34_CoverageCostDefined ==
    /\ [](failed # "division_by_zero")
    /\ [][/\ covered_k_paths' # covered_k_paths
              => covered_k_paths' # graph_k_paths(cost_settings_k)
          /\ \A k \in 1..Len(queue') :
                k > KeptEntries =>
                    LET missing == num_missing_k_paths(covered_k_paths)
                        contributed == num_contributed_k_paths(covered_k_paths,
                                                               queue'[k].state)
                    IN  missing > 0 /\ 0 <= contributed /\ contributed <= missing]_vars

\* The covered k-paths were reset, and the cost of a state pushed since was
\* computed with some of the k-paths covered again.
C34_Witness ==
    /\ covered_k_paths # {}
    /\ Cardinality(covered_k_paths) < Cardinality(graph_k_paths(cost_settings_k))
    /\ \E k \in 1..Len(queue) :
          tree_k_paths(queue[k].state.tree, cost_settings_k) \subseteq covered_k_paths
          /\ tree_k_paths(queue[k].state.tree, cost_settings_k) # {}

\* The structural hashes of the trees of the queued states.
QueuedHashes == {structural_hash(queue[k].state.tree) : k \in 1..Len(queue)}

\* C35: tree_hashes_in_queue is exactly the set of the structural hashes of
\* the trees of the states in the queue.
C35_HashesOfQueue == tree_hashes_in_queue = QueuedHashes

\* What holds of the set in every state: a hash in it is the hash of the
\* tree of a queued state.
C35_HashesAreQueued == tree_hashes_in_queue \subseteq QueuedHashes

\* count was called with the tree of a number for num.
CountedConcrete == pc = "counted" /\ IsNum(num)

\* C36: count with a concrete num is false when in_tree has more than num
\* occurrences of needle, not ready when it has exactly num and an open leaf
\* still reaches needle, and substitutes in_tree only by a candidate with
\* exactly num occurrences and no open leaf that reaches needle.
C36_CountConcrete ==
    CountedConcrete =>
        LET occurrences == num_needles(in_tree, needle)
        IN  /\ occurrences > num.num => evaluation_result = Decided(FALSE)
            /\ (occurrences = num.num /\ more_needles_possible(in_tree, needle))
                   => evaluation_result = NotReady
            /\ evaluation_result.kind = "subst" =>
                   /\ evaluation_result.vm = EmptyMap
                   /\ DOMAIN evaluation_result.tm = {in_tree.id}
                   /\ LET candidate == evaluation_result.tm[in_tree.id]
                      IN  /\ num_needles(candidate, needle) = num.num
                          /\ \A p \in open_leaves(candidate) :
                                ~reachable(get_subtree(candidate, p).value, needle)

\* count returned a candidate with two needles for a tree that had fewer.
C36_Witness ==
    /\ CountedConcrete
    /\ evaluation_result.kind = "subst"
    /\ num.num = 2
    /\ num_needles(in_tree, needle) < 2

\* p is an initial segment of q, q itself included.
IsPrefix(p, q) == Len(p) <= Len(q) /\ SubSeq(q, 1, Len(p)) = p

\* C37: is_before is a strict order that excludes ancestors: it is false of
\* a path and itself, of a path and a prefix of it in either order and of
\* the empty path, it never holds both ways, and of two paths neither of
\* which is a prefix of the other it holds exactly one way.
C37_StrictOrder ==
    pc = "before" =>
        LET forth == evaluation_result.value
            back == is_before(path_2, path_1)
        IN  /\ path_1 = path_2 => ~forth
            /\ (IsPrefix(path_1, path_2) \/ IsPrefix(path_2, path_1)) => ~forth
            /\ (path_1 = <<>> \/ path_2 = <<>>) => ~forth
            /\ ~(forth /\ back)
            /\ (~IsPrefix(path_1, path_2) /\ ~IsPrefix(path_2, path_1))
                   => (forth \/ back)
            /\ \A p \in TreePaths :
                   (forth /\ is_before(path_2, p)) => is_before(path_1, p)

\* is_before holds of two paths that part below the root.
C37_Witness ==
    /\ pc = "before"
    /\ evaluation_result = Decided(TRUE)
    /\ Len(path_1) > 1
    /\ Len(path_2) > 1
    /\ Head(path_1) = Head(path_2)

\* C38: after is the converse of before: after(p, q) holds exactly when
\* is_before(q, p) holds, so it is false whenever one of the paths is a
\* prefix of the other.
C38_ConverseOfBefore ==
    pc = "after" =>
        /\ evaluation_result.value = is_before(path_2, path_1)
        /\ (IsPrefix(path_1, path_2) \/ IsPrefix(path_2, path_1))
               => ~evaluation_result.value

\* What holds of after: it is false of a path and its extensions, itself
\* included, and elsewhere it is the negation of is_before.
C38_AfterExcludesDescendants ==
    pc = "after" =>
        evaluation_result.value = (~IsPrefix(path_1, path_2) /\ ~is_before(path_1, path_2))

\* The maximal paths through the nesting of the quantified formulas of f:
\* a quantified formula with none below it ends one path, one with some
\* below it continues each of theirs.
RECURSIVE NestingPaths(_)
NestingPaths(f) ==
    CASE f.kind \in {"forall", "exists", "intro"} ->
            IF NestingPaths(f.body) = 0 THEN 1 ELSE NestingPaths(f.body)
      [] f.kind \in {"and", "or"} -> NestingPaths(f.l) + NestingPaths(f.r)
      [] OTHER -> 0

\* C39: get_quantifier_chains distributes over conjunction, the chains of
\* f & g are those of f and those of g, and a formula has as many chains as
\* there are maximal paths through the nesting of its quantifiers.
C39_ChainsDistribute ==
    pc = "chains" =>
        /\ formula.kind = "and" =>
              SeqRange(quantifier_chains) =
                  SeqRange(get_quantifier_chains(formula.l)) \cup
                  SeqRange(get_quantifier_chains(formula.r))
        /\ Len(quantifier_chains) = NestingPaths(formula)

\* The chains of a conjunction of a formula with one chain and a formula
\* with two: three chains.
C39_Witness ==
    /\ pc = "chains"
    /\ formula.kind = "and"
    /\ Len(get_quantifier_chains(formula.l)) = 1
    /\ Len(get_quantifier_chains(formula.r)) = 2
    /\ Len(quantifier_chains) = 3
    /\ \E i \in 1..3 : Len(quantifier_chains[i]) = 2

====
